---- MODULE Spec2Model ----
(***************************************************************************)
(* AI-usage governance layer of the CALIPAR backend: the in-memory LRU    *)
(* response cache (services/ai_cache.py), the rate limiter and its policy *)
(* resolution (services/rate_limiter.py, models/ai_usage.py) and the AI   *)
(* endpoints that use them (routers/ai.py).                               *)
(***************************************************************************)
EXTENDS Integers, Sequences, FiniteSets, TLC

VARIABLES
    now,      \* the clock: time.time() / datetime.utcnow(), in seconds
    cache,    \* AICache._cache: the OrderedDict as a sequence, oldest first
    stats,    \* AICache._stats: hits, misses, evictions, current_size
    ret,      \* the last cache operation and what it returned
    lru,      \* history: keys held by the cache, least recently touched first
    ledger,   \* the ai_usage table: AIUsage rows in insertion order
    configs,  \* the rate_limit_config table: a set of RateLimitConfig rows
    req,      \* one record per request slot: the endpoint handler's position
    lock,     \* AICache._lock: the thread that holds it, or NoThread
    serial    \* history: <<cache, stats>> of the same operations run one
              \* after another in the order they took the lock

vars == <<now, cache, stats, ret, lru, ledger, configs, req, lock, serial>>

----------------------------------------------------------------------------
(* Bounds of the model *)

\* capacity of the cache under check (AICache(max_size=...))
max_size == 2
\* the clock of the cache runs stop at this time
MaxTime == 1
\* lookups (hits + misses) between two statistics resets
MaxLookups == 1
\* capacity evictions between two statistics resets
MaxEvictions == 1
\* hits of one cache entry
MaxHits == 1
\* rows of the ledger
MaxLedger == 3
\* advances of the clock of the rate limiter runs
MaxTicks == 3
\* rows of the ledger in the runs of a caller with the default policy
MaxCalls == 6
\* lookups made by the wrapped calls between two statistics resets
MaxWrapped == 2

----------------------------------------------------------------------------
(* Python values *)

None == "None"

\* Python truthiness of an Optional[str]
Truthy(s) == s # None /\ s # ""

\* the owner of a lock that nobody holds (threads are numbered from 1)
NoThread == 0

\* Optional[int] as a sequence of length 0 (None) or 1
NoInt == <<>>

Last(s) == s[Len(s)]

\* s without its i-th element
RemoveAt(s, i) == SubSeq(s, 1, i - 1) \o SubSeq(s, i + 1, Len(s))

----------------------------------------------------------------------------
(* services/ai_cache.py: the cache key *)

\* lexicographic rank of the field names used in payloads
FieldRank == [a |-> 1, b |-> 2, c |-> 3]

\* insert the pair p into the sequence s of pairs sorted by field name
RECURSIVE InsertSorted(_, _)
InsertSorted(p, s) ==
    IF s = <<>> THEN <<p>>
    ELSE IF FieldRank[p[1]] <= FieldRank[Head(s)[1]] THEN <<p>> \o s
    ELSE <<Head(s)>> \o InsertSorted(p, Tail(s))

\* json.dumps(d, sort_keys=False): the items in insertion order
dumps_unsorted(d) == d

\* json.dumps(d, sort_keys=True) of a dict d given as its items in insertion
\* order: the items in the order of their field names, at every depth.  An
\* item is <<name, n>> for a number and <<name, "dict", items>> for a dict.
RECURSIVE dumps(_), dumps_item(_)
dumps_item(p) == IF Len(p) = 3 THEN <<p[1], p[2], dumps(p[3])>> ELSE p
dumps(d) == IF d = <<>> THEN <<>> ELSE InsertSorted(dumps_item(Head(d)), dumps(Tail(d)))

\* AICache._generate_key: the serialised key_parts; user_id is a part of it
\* only when it is truthy.  SHA-256 is taken as injective.
_generate_key_no_user(endpoint, prompt_data, user_id) == <<dumps(prompt_data), endpoint>>
_generate_key(endpoint, prompt_data, user_id) ==
    IF Truthy(user_id) THEN <<dumps(prompt_data), endpoint, user_id>>
    ELSE <<dumps(prompt_data), endpoint>>

----------------------------------------------------------------------------
(* services/ai_cache.py: the cache *)

DEFAULT_TTLS ==
    [analyze |-> 3600, expand |-> 1800, equity_check |-> 3600, chat |-> 300,
     socratic |-> 600, default |-> 1800]

\* DEFAULT_TTLS.get(endpoint, DEFAULT_TTLS["default"])
DefaultTtl(endpoint) ==
    IF endpoint \in DOMAIN DEFAULT_TTLS THEN DEFAULT_TTLS[endpoint]
    ELSE DEFAULT_TTLS["default"]

\* CacheEntry.is_expired at time t
is_expired_never(entry, t) == FALSE
is_expired(entry, t) == t > entry.expires_at

\* CacheStats.hit_rate, the quotient as <<numerator, denominator>>
hit_rate(st) ==
    LET total == st.hits + st.misses IN
    IF total > 0 THEN <<st.hits, total>> ELSE <<0, 1>>

\* CacheStats() with the given size
CacheStats_no_size(size) == [hits |-> 0, misses |-> 0, evictions |-> 0, current_size |-> 0]
CacheStats(size) == [hits |-> 0, misses |-> 0, evictions |-> 0, current_size |-> size]

Keys(c) == {c[i].key : i \in 1..Len(c)}

\* position of key k in the OrderedDict c (k is in c)
IndexOf(c, k) == CHOOSE i \in 1..Len(c) : c[i].key = k

\* OrderedDict.move_to_end(key)
move_to_end_stays(c, k) == c
move_to_end(c, k) == RemoveAt(c, IndexOf(c, k)) \o <<c[IndexOf(c, k)]>>

\* del self._cache[key]
del_keeps(c, k) == c
del(c, k) == RemoveAt(c, IndexOf(c, k))

\* OrderedDict.popitem(last=False)
popitem_last(c) == SubSeq(c, 1, Len(c) - 1)
popitem(c) == Tail(c)

\* the guard of the eviction loop of set
AtCapacity_gt(c) == Len(c) > max_size
AtCapacity(c) == Len(c) >= max_size

\* AICache._evict_oldest on the pair <<cache, stats>>
_evict_oldest_uncounted(cs) ==
    IF cs[1] # <<>>
    THEN <<popitem(cs[1]), [cs[2] EXCEPT !.current_size = Len(cs[1]) - 1]>>
    ELSE cs
_evict_oldest(cs) ==
    IF cs[1] # <<>>
    THEN <<popitem(cs[1]),
           [cs[2] EXCEPT !.evictions = @ + 1, !.current_size = Len(cs[1]) - 1]>>
    ELSE cs

\* while len(self._cache) >= self.max_size: self._evict_oldest()
\* (max_size >= 1 here, so the loop ends when the cache has room)
RECURSIVE EvictLoop(_)
EvictLoop(cs) == IF AtCapacity(cs[1]) THEN EvictLoop(_evict_oldest(cs)) ELSE cs

\* history: the key k has just been touched (stored or hit)
Touch(order, k) == SelectSeq(order, LAMBDA x : x # k) \o <<k>>

\* history: only the keys in the set ks are still held
Held(order, ks) == SelectSeq(order, LAMBDA x : x \in ks)

\* what a cache operation has returned: the operation, then the value
Returned(name, v) == [op |-> name, val |-> v]

\* the CacheEntry that AICache.set builds at time t
CacheEntry_no_ttl(key, value, t, ttl) ==
    [key |-> key, value |-> value, created_at |-> t, expires_at |-> t,
     hit_count |-> 0, last_accessed |-> t]
CacheEntry(key, value, t, ttl) ==
    [key |-> key, value |-> value, created_at |-> t, expires_at |-> t + ttl,
     hit_count |-> 0, last_accessed |-> t]

\* the block of AICache.get under the lock, on the pair cs = <<cache, stats>>
\* at time t: the pair after it and the value returned
get_locked_expiry_uncounted(cs, key, t) ==
    IF key \notin Keys(cs[1])
    THEN [cs |-> <<cs[1], [cs[2] EXCEPT !.misses = @ + 1]>>, val |-> <<>>]
    ELSE LET i == IndexOf(cs[1], key)
             entry == cs[1][i]
         IN  IF is_expired(entry, t)
             THEN [cs |-> <<del(cs[1], key), [cs[2] EXCEPT !.current_size = @ - 1]>>,
                   val |-> <<>>]
             ELSE LET touched == [entry EXCEPT !.hit_count = @ + 1,
                                               !.last_accessed = t]
                  IN  [cs |-> <<move_to_end([cs[1] EXCEPT ![i] = touched], key),
                                [cs[2] EXCEPT !.hits = @ + 1]>>,
                       val |-> <<entry.value>>]
get_locked_size_kept(cs, key, t) ==
    IF key \notin Keys(cs[1])
    THEN [cs |-> <<cs[1], [cs[2] EXCEPT !.misses = @ + 1]>>, val |-> <<>>]
    ELSE LET i == IndexOf(cs[1], key)
             entry == cs[1][i]
         IN  IF is_expired(entry, t)
             THEN [cs |-> <<del(cs[1], key), [cs[2] EXCEPT !.misses = @ + 1]>>,
                   val |-> <<>>]
             ELSE LET touched == [entry EXCEPT !.hit_count = @ + 1,
                                               !.last_accessed = t]
                  IN  [cs |-> <<move_to_end([cs[1] EXCEPT ![i] = touched], key),
                                [cs[2] EXCEPT !.hits = @ + 1]>>,
                       val |-> <<entry.value>>]
get_locked(cs, key, t) ==
    IF key \notin Keys(cs[1])
    THEN [cs |-> <<cs[1], [cs[2] EXCEPT !.misses = @ + 1]>>, val |-> <<>>]
    ELSE LET i == IndexOf(cs[1], key)
             entry == cs[1][i]
         IN  IF is_expired(entry, t)
             THEN [cs |-> <<del(cs[1], key),
                            [cs[2] EXCEPT !.current_size = @ - 1, !.misses = @ + 1]>>,
                   val |-> <<>>]
             ELSE LET touched == [entry EXCEPT !.hit_count = @ + 1,
                                               !.last_accessed = t]
                  IN  [cs |-> <<move_to_end([cs[1] EXCEPT ![i] = touched], key),
                                [cs[2] EXCEPT !.hits = @ + 1]>>,
                       val |-> <<entry.value>>]

\* the block of AICache.set under the lock
set_locked_keeps_old(cs, key, entry) ==
    IF key \in Keys(cs[1])
    THEN <<move_to_end(cs[1], key), cs[2]>>
    ELSE LET e == EvictLoop(cs) IN
         <<Append(e[1], entry), [e[2] EXCEPT !.current_size = Len(e[1]) + 1]>>
set_locked_evicts_first(cs, key, entry) ==
    LET e == EvictLoop(cs) IN
    IF key \in Keys(e[1])
    THEN <<move_to_end([e[1] EXCEPT ![IndexOf(e[1], key)] = entry], key), e[2]>>
    ELSE <<Append(e[1], entry), [e[2] EXCEPT !.current_size = Len(e[1]) + 1]>>
set_locked(cs, key, entry) ==
    IF key \in Keys(cs[1])
    THEN <<move_to_end([cs[1] EXCEPT ![IndexOf(cs[1], key)] = entry], key), cs[2]>>
    ELSE LET e == EvictLoop(cs) IN
         <<Append(e[1], entry), [e[2] EXCEPT !.current_size = Len(e[1]) + 1]>>

\* the block of AICache.invalidate under the lock
invalidate_locked(cs, key) ==
    IF key \in Keys(cs[1])
    THEN [cs |-> <<del(cs[1], key), [cs[2] EXCEPT !.current_size = Len(cs[1]) - 1]>>,
          val |-> TRUE]
    ELSE [cs |-> cs, val |-> FALSE]

\* the block of AICache.cleanup_expired under the lock
cleanup_expired_locked_le(cs, t) ==
    LET keep == SelectSeq(cs[1], LAMBDA e : ~(e.expires_at <= t)) IN
    [cs |-> <<keep, [cs[2] EXCEPT !.current_size = Len(keep)]>>,
     val |-> Len(cs[1]) - Len(keep)]
cleanup_expired_locked(cs, t) ==
    LET keep == SelectSeq(cs[1], LAMBDA e : ~(e.expires_at < t)) IN
    [cs |-> <<keep, [cs[2] EXCEPT !.current_size = Len(keep)]>>,
     val |-> Len(cs[1]) - Len(keep)]

\* the block of AICache.reset_stats under the lock
reset_stats_locked(cs) == [cs |-> <<cs[1], CacheStats(Len(cs[1]))>>, val |-> <<>>]

\* AICache.get
get(endpoint, prompt_data, user_id) ==
    LET key == _generate_key(endpoint, prompt_data, user_id)
        r == get_locked(<<cache, stats>>, key, now)
    IN  /\ stats.hits + stats.misses < MaxLookups
        /\ r.val # <<>> => cache[IndexOf(cache, key)].hit_count < MaxHits
        /\ cache' = r.cs[1]
        /\ stats' = r.cs[2]
        /\ ret' = [op |-> "get", val |-> r.val]
        /\ lru' = Held(IF r.val # <<>> THEN Touch(lru, key) ELSE lru, Keys(cache'))
        /\ UNCHANGED <<now, ledger, configs, req, lock, serial>>

\* AICache.set
set(endpoint, prompt_data, value, ttl, user_id) ==
    LET key == _generate_key(endpoint, prompt_data, user_id)
        t == IF ttl = NoInt THEN DefaultTtl(endpoint) ELSE ttl[1]
        cs == set_locked(<<cache, stats>>, key, CacheEntry(key, value, now, t))
    IN  /\ cs[2].evictions <= MaxEvictions
        /\ cache' = cs[1]
        /\ stats' = cs[2]
        /\ ret' = [op |-> "set", val |-> key]
        /\ lru' = Held(Touch(lru, key), Keys(cache'))
        /\ UNCHANGED <<now, ledger, configs, req, lock, serial>>

\* AICache.invalidate
invalidate(endpoint, prompt_data, user_id) ==
    LET key == _generate_key(endpoint, prompt_data, user_id)
        r == invalidate_locked(<<cache, stats>>, key)
    IN  /\ cache' = r.cs[1]
        /\ stats' = r.cs[2]
        /\ ret' = [op |-> "invalidate", val |-> r.val]
        /\ lru' = Held(lru, Keys(cache'))
        /\ UNCHANGED <<now, ledger, configs, req, lock, serial>>

\* AICache.invalidate_by_endpoint: the entries removed are those whose value
\* carries the endpoint under "_endpoint"
invalidate_by_endpoint(endpoint) ==
    LET keep == SelectSeq(cache, LAMBDA e : e.value._endpoint # endpoint) IN
    /\ cache' = keep
    /\ stats' = [stats EXCEPT !.current_size = Len(keep)]
    /\ ret' = [op |-> "invalidate_by_endpoint", val |-> Len(cache) - Len(keep)]
    /\ lru' = Held(lru, Keys(cache'))
    /\ UNCHANGED <<now, ledger, configs, req, lock, serial>>

\* AICache.clear
clear ==
    /\ cache # <<>>
    /\ cache' = <<>>
    /\ stats' = [stats EXCEPT !.current_size = 0]
    /\ ret' = [op |-> "clear", val |-> Len(cache)]
    /\ lru' = <<>>
    /\ UNCHANGED <<now, ledger, configs, req, lock, serial>>

\* AICache.cleanup_expired
cleanup_expired ==
    LET r == cleanup_expired_locked(<<cache, stats>>, now) IN
    /\ cache' = r.cs[1]
    /\ stats' = r.cs[2]
    /\ ret' = [op |-> "cleanup_expired", val |-> r.val]
    /\ lru' = Held(lru, Keys(cache'))
    /\ UNCHANGED <<now, ledger, configs, req, lock, serial>>

\* AICache.get_stats: refreshes current_size and reports the counters
get_stats ==
    /\ stats' = [stats EXCEPT !.current_size = Len(cache)]
    /\ ret' = [op |-> "get_stats", val |-> stats']
    /\ UNCHANGED <<now, cache, lru, ledger, configs, req, lock, serial>>

\* AICache.reset_stats
reset_stats ==
    /\ stats' = reset_stats_locked(<<cache, stats>>).cs[2]
    /\ ret' = [op |-> "reset_stats", val |-> <<>>]
    /\ UNCHANGED <<now, cache, lru, ledger, configs, req, lock, serial>>

\* the clock advances by one second
Tick ==
    /\ now < MaxTime
    /\ now' = now + 1
    /\ UNCHANGED <<cache, stats, ret, lru, ledger, configs, req, lock, serial>>

----------------------------------------------------------------------------
(* services/ai_cache.py: the operations as threads run them, each entering *)
(* `with self._lock:` on its own                                           *)

\* the entry argument of the operations that store nothing
NoEntry == CacheEntry(<<>>, [_endpoint |-> None, body |-> 0], 0, 0)

\* a cache operation a thread has called: its name, the key computed before
\* the lock is taken and, for set, the entry built before the lock is taken
CacheOp(name, key, entry) == [name |-> name, key |-> key, entry |-> entry]

\* a thread that is in no cache operation
IdleThread ==
    [pc |-> "idle", op |-> CacheOp("none", <<>>, NoEntry), view |-> <<>>,
     val |-> Returned("none", <<>>), then |-> "return",
     call |-> <<>>, outcome |-> None, raised |-> None]

\* the block under the lock of the operation op, on cs = <<cache, stats>> at
\* time t: the pair after it and the value returned
Apply(op, cs, t) ==
    CASE op.name = "get" -> get_locked(cs, op.key, t)
      [] op.name = "set" -> [cs |-> set_locked(cs, op.key, op.entry), val |-> op.key]
      [] op.name = "invalidate" -> invalidate_locked(cs, op.key)
      [] op.name = "cleanup_expired" -> cleanup_expired_locked(cs, t)
      [] op.name = "reset_stats" -> reset_stats_locked(cs)

\* threading.RLock: a thread enters when no other thread holds the lock
LockFree_always(s) == TRUE
LockFree(s) == lock \in {NoThread, s}

\* the operation is called: the key is computed, and set reads the clock and
\* builds its entry (both before the lock is taken)
Enter(s, op, then) ==
    req' = [req EXCEPT ![s].pc = "waiting", ![s].op = op, ![s].then = then]

\* a thread calls get, set, invalidate, cleanup_expired or reset_stats
thread_call(s, name, endpoint, prompt_data, value, ttl, user_id) ==
    LET key == _generate_key(endpoint, prompt_data, user_id)
        t == IF ttl = NoInt THEN DefaultTtl(endpoint) ELSE ttl[1]
        entry == IF name = "set" THEN CacheEntry(key, value, now, t) ELSE NoEntry
    IN  /\ req[s].pc = "idle"
        /\ name = "get" =>
              stats.hits + stats.misses
                  + Cardinality({x \in DOMAIN req : req[x].op.name = "get"
                                                    /\ req[x].pc # "idle"}) < MaxLookups
        /\ Enter(s, CacheOp(name, IF name \in {"cleanup_expired", "reset_stats"}
                                   THEN <<>> ELSE key, entry),
                 "return")
        /\ UNCHANGED <<now, cache, stats, ret, lru, ledger, configs, lock, serial>>

\* `with self._lock:` is entered: from here on the thread reads the cache
acquire(s) ==
    LET op == req[s].op
        r == Apply(op, <<cache, stats>>, now)
    IN  /\ req[s].pc = "waiting"
        /\ LockFree(s)
        /\ (op.name = "get" /\ r.val # <<>>) =>
              cache[IndexOf(cache, op.key)].hit_count < MaxHits
        /\ r.cs[2].evictions <= MaxEvictions
        /\ lock' = s
        /\ req' = [req EXCEPT ![s].pc = "locked", ![s].view = <<cache, stats>>]
        /\ UNCHANGED <<now, cache, stats, ret, lru, ledger, configs, serial>>

\* where the caller of the operation goes on when the operation has returned
AfterReturn(r, val) ==
    CASE r.then = "return" -> IdleThread
      [] r.then = "wrapper_get" ->
            IF val.val # <<>> THEN [r EXCEPT !.pc = "done", !.val = val]
            ELSE [r EXCEPT !.pc = "upstream", !.val = val]
      [] r.then = "wrapper_set" -> [r EXCEPT !.pc = "done"]

\* the owner of the lock when thread s leaves its `with self._lock:` block
\* (entered once, so leaving frees the lock) to go on with `then`
lock_exit_kept_by_wrapper(s, then) == IF then = "wrapper_get" THEN s ELSE NoThread
lock_exit(s, then) == NoThread

\* the block under the lock has run on what the thread read, and the lock is
\* left
release(s) ==
    LET op == req[s].op
        r == Apply(op, req[s].view, now)
    IN  /\ req[s].pc = "locked"
        /\ cache' = r.cs[1]
        /\ stats' = r.cs[2]
        /\ serial' = Apply(op, serial, now).cs
        /\ lock' = lock_exit(s, req[s].then)
        /\ lru' = Held(IF op.name = "set" \/ (op.name = "get" /\ r.val # <<>>)
                       THEN Touch(lru, op.key) ELSE lru, Keys(cache'))
        /\ req' = [req EXCEPT ![s] =
                      AfterReturn([req[s] EXCEPT !.view = <<>>], Returned(op.name, r.val))]
        /\ UNCHANGED <<now, ret, ledger, configs>>

----------------------------------------------------------------------------
(* services/ai_cache.py: cached_ai_response, the wrapper around a function *)

\* the payload that stands for prompt_data = None (JSON null)
NullData == << <<"null", 0>> >>

\* Python truthiness of an optional dict given as <<>> (None, absent) or <<d>>
TruthyDict(o) == o # <<>> /\ o[1] # <<>>

\* prompt_data = kwargs.get("data") or kwargs.get("prompt") or args[0]
\*               if args else None
\* (the conditional binds last: without positional arguments it is None)
ExtractPromptData(args, kwargs) ==
    IF args # <<>>
    THEN IF TruthyDict(kwargs.data) THEN kwargs.data[1]
         ELSE IF TruthyDict(kwargs.prompt) THEN kwargs.prompt[1]
         ELSE args[1]
    ELSE NullData

\* wrapper up to the call of ai_cache.get, or up to the call of the function
\* when bypass_cache is set; deco = the arguments of the decorator
wrapper_call(s, deco, args, kwargs) ==
    LET prompt_data == ExtractPromptData(args, kwargs)
        user_id == IF deco.include_user THEN kwargs.user_id ELSE None
        key == _generate_key(deco.endpoint, prompt_data, user_id)
        r == [IdleThread EXCEPT !.call = <<[deco |-> deco, key |-> key,
                                            bypass_cache |-> kwargs.bypass_cache,
                                            args |-> args, kwargs |-> kwargs]>>]
    IN  /\ req[s].pc \in {"idle", "done"}
        /\ stats.hits + stats.misses
              + Cardinality({x \in DOMAIN req : req[x].pc \in {"waiting", "locked"}
                                                /\ req[x].op.name = "get"}) < MaxWrapped
        /\ IF kwargs.bypass_cache
           THEN req' = [req EXCEPT ![s] = [r EXCEPT !.pc = "upstream"]]
           ELSE req' = [req EXCEPT ![s] =
                       [r EXCEPT !.pc = "waiting", !.op = CacheOp("get", key, NoEntry),
                                 !.then = "wrapper_get"]]
        /\ UNCHANGED <<now, cache, stats, ret, lru, ledger, configs, lock, serial>>

\* ai_cache.set is reached: the function returned (an exception or a
\* cancellation leaves the wrapper at the await) and bypass_cache is not set
StoresResult_always(outcome, bypass_cache) == ~bypass_cache
StoresResult(outcome, bypass_cache) == outcome = "ok" /\ ~bypass_cache

\* the awaited function ends: a result is stored by ai_cache.set unless
\* bypass_cache is set; an exception or a cancellation leaves the wrapper
wrapper_return(s, outcome, result) ==
    LET c == req[s].call[1]
        t == IF c.deco.ttl = NoInt THEN DefaultTtl(c.deco.endpoint) ELSE c.deco.ttl[1]
    IN  /\ req[s].pc = "upstream" /\ req[s].call # <<>>
        /\ IF StoresResult(outcome, c.bypass_cache)
           THEN req' = [req EXCEPT ![s].pc = "waiting", ![s].outcome = outcome,
                                   ![s].val = Returned("func", <<result>>),
                                   ![s].op = CacheOp("set", c.key,
                                                     CacheEntry(c.key, result, now, t)),
                                   ![s].then = "wrapper_set"]
           ELSE IF outcome = "ok"
           THEN req' = [req EXCEPT ![s].pc = "done", ![s].outcome = outcome,
                                   ![s].val = Returned("func", <<result>>)]
           ELSE req' = [req EXCEPT ![s].pc = "done", ![s].outcome = outcome,
                                   ![s].raised = outcome]
        /\ UNCHANGED <<now, cache, stats, ret, lru, ledger, configs, lock, serial>>

----------------------------------------------------------------------------
(* models/user.py, models/ai_usage.py: roles, the ledger rows, the policies *)

\* UserRole: the values of the enum
UserRole == {"faculty", "chair", "dean", "admin", "proc"}

\* AIEndpoint: the values of the enum
AIEndpoint == {"analyze", "expand", "equity_check", "chat", "chat_stream", "socratic"}

Policy(m, h, d) ==
    [requests_per_minute |-> m, requests_per_hour |-> h, requests_per_day |-> d]

\* DEFAULT_RATE_LIMITS, keyed as in the source
DEFAULT_RATE_LIMITS ==
    [Faculty |-> Policy(5, 50, 200),
     Chair |-> Policy(10, 100, 500),
     Dean |-> Policy(15, 150, 750),
     Admin |-> Policy(30, 300, 1500),
     PROC |-> Policy(10, 100, 500)]

\* the default of DEFAULT_RATE_LIMITS.get in _get_rate_limits
FallbackLimits == Policy(10, 100, 500)

\* a RateLimitConfig row
RateLimitConfig(type, value, m, h, d, active) ==
    [target_type |-> type, target_value |-> value, requests_per_minute |-> m,
     requests_per_hour |-> h, requests_per_day |-> d, is_active |-> active]

\* the thresholds _get_rate_limits copies from a row
LimitsOf(row) ==
    Policy(row.requests_per_minute, row.requests_per_hour, row.requests_per_day)

\* an AIUsage row
AIUsage(user, endpoint, t, success) ==
    [user_id |-> user.id, endpoint |-> endpoint, request_timestamp |-> t,
     success |-> success]

----------------------------------------------------------------------------
(* services/rate_limiter.py *)

\* the rows a query of _get_rate_limits selects
ActiveRows(cfgs, type, value) ==
    {c \in cfgs : c.target_type = type /\ c.target_value = value /\ c.is_active}

\* DEFAULT_RATE_LIMITS.get(user.role.value, {10, 100, 500})
DefaultLimits(role_value) ==
    IF role_value \in DOMAIN DEFAULT_RATE_LIMITS THEN DEFAULT_RATE_LIMITS[role_value]
    ELSE FallbackLimits

\* RateLimiterService._get_rate_limits: the policies it can return (.first()
\* picks any one of the rows the query selects)
_get_rate_limits_role_first(cfgs, user) ==
    LET user_rows == ActiveRows(cfgs, "user", user.id)
        role_rows == ActiveRows(cfgs, "role", user.role)
    IN  IF role_rows # {} THEN {LimitsOf(c) : c \in role_rows}
        ELSE IF user_rows # {} THEN {LimitsOf(c) : c \in user_rows}
        ELSE {DefaultLimits(user.role)}
_get_rate_limits(cfgs, user) ==
    LET user_rows == ActiveRows(cfgs, "user", user.id)
        role_rows == ActiveRows(cfgs, "role", user.role)
    IN  IF user_rows # {} THEN {LimitsOf(c) : c \in user_rows}
        ELSE IF role_rows # {} THEN {LimitsOf(c) : c \in role_rows}
        ELSE {DefaultLimits(user.role)}

\* RateLimiterService._count_requests: the rows of the user since a time; the
\* endpoint is not part of the query
_count_requests_ever(rows, user_id, since) ==
    Cardinality({i \in 1..Len(rows) : rows[i].user_id = user_id})
_count_requests_strict(rows, user_id, since) ==
    Cardinality({i \in 1..Len(rows) :
        rows[i].user_id = user_id /\ rows[i].request_timestamp > since})
_count_requests_any_user(rows, user_id, since) ==
    Cardinality({i \in 1..Len(rows) : rows[i].request_timestamp >= since})
_count_requests(rows, user_id, since) ==
    Cardinality({i \in 1..Len(rows) :
        rows[i].user_id = user_id /\ rows[i].request_timestamp >= since})

\* the windows of check_rate_limit, in the order of its loop
Windows_day_first ==
    << [name |-> "day", duration |-> 86400, limit_key |-> "requests_per_day"],
       [name |-> "hour", duration |-> 3600, limit_key |-> "requests_per_hour"],
       [name |-> "minute", duration |-> 60, limit_key |-> "requests_per_minute"] >>
Windows ==
    << [name |-> "minute", duration |-> 60, limit_key |-> "requests_per_minute"],
       [name |-> "hour", duration |-> 3600, limit_key |-> "requests_per_hour"],
       [name |-> "day", duration |-> 86400, limit_key |-> "requests_per_day"] >>

\* the result of a check that was not made
NoCheck ==
    [allowed |-> TRUE, limit_type |-> None, current_count |-> 0, limit |-> 0,
     reset_time |-> 0, counted |-> <<>>, limits |-> Policy(0, 0, 0)]

\* the loop of check_rate_limit from its i-th window on; counted is the
\* sequence of the windows counted so far
RECURSIVE CheckWindows(_, _, _, _, _, _, _)
CheckWindows(ws, i, rows, limits, user, t, counted) ==
    IF i > Len(ws)
    THEN [NoCheck EXCEPT !.counted = counted, !.limits = limits]
    ELSE LET w == ws[i]
             limit == limits[w.limit_key]
             window_start == t - w.duration
             count == _count_requests(rows, user.id, window_start)
         IN  IF count >= limit
             THEN [allowed |-> FALSE, limit_type |-> w.name, current_count |-> count,
                   limit |-> limit, reset_time |-> window_start + w.duration,
                   counted |-> Append(counted, w.name), limits |-> limits]
             ELSE CheckWindows(ws, i + 1, rows, limits, user, t, Append(counted, w.name))

\* RateLimiterService.check_rate_limit with the resolved limits: allowed, or
\* the fields of RateLimitExceeded
check_rate_limit_reserving(rows, limits, user, t) ==
    LET waiting == Cardinality({s \in DOMAIN req : req[s].pc = "upstream"}) IN
    CheckWindows(Windows, 1,
                 rows \o [i \in 1..waiting |-> AIUsage(user, "analyze", t, TRUE)],
                 limits, user, t, <<>>)
check_rate_limit(rows, limits, user, t) ==
    CheckWindows(Windows, 1, rows, limits, user, t, <<>>)

\* Python's max(0, n)
Max0_unclamped(n) == n
Max0(n) == IF n > 0 THEN n ELSE 0

\* RateLimiterService.get_user_remaining_quota with the resolved limits: for
\* each window the rows used, the limit, what remains and the reset time
get_user_remaining_quota(rows, limits, user, t) ==
    LET entry(w) ==
            LET count == _count_requests(rows, user.id, t - w.duration) IN
            [used |-> count, limit |-> limits[w.limit_key],
             remaining |-> Max0(limits[w.limit_key] - count),
             resets_at |-> t + w.duration]
    IN  [minute |-> entry(Windows[1]), hour |-> entry(Windows[2]),
         day |-> entry(Windows[3])]

\* RateLimiterService.record_usage: one row is added, stamped by utcnow
record_usage(rows, user, endpoint, success, t) ==
    Append(rows, AIUsage(user, endpoint, t, success))

----------------------------------------------------------------------------
(* routers/ai.py, services/gemini.py: the AI endpoints *)

NoUser == [id |-> None, role |-> None]

\* a request slot with no request in it
IdleReq ==
    [pc |-> "idle", user |-> NoUser, endpoint |-> None, data |-> <<>>,
     chk |-> NoCheck, outcome |-> None, status |-> 0, raised |-> None, events |-> 0,
     quota |-> <<>>, response |-> <<>>]

\* an HTTPException with status 429: the message of the RateLimitExceeded
\* (count, limit and window, as text) and, each present or not, the limit,
\* the remaining count and the reset time as items of the detail or headers
TooManyRequests(chk, limit, remaining, reset_time) ==
    [status_code |-> 429, error |-> "rate_limit_exceeded",
     message |-> <<chk.current_count, chk.limit, chk.limit_type>>,
     limit |-> limit, remaining |-> remaining, reset_time |-> reset_time]

\* check_rate_limit_dependency, when the check raises (no route depends on it)
check_rate_limit_dependency(chk) ==
    TooManyRequests(chk, <<chk.limit>>, <<0>>, <<chk.reset_time>>)

\* how a call of a GeminiService method ends, seen from the endpoint:
\*   ok         the API answered and the endpoint built its response
\*   api_error  the API call raised inside the service's try: the service
\*              prints the error and returns its mock response
\*   error      an exception reached the endpoint (raised by the service
\*              outside its try, or while the response model was built)
\*   cancelled  asyncio.CancelledError, which `except Exception` lets pass
Outcomes == {"ok", "api_error", "error", "cancelled"}

\* the number of requests that passed the check and have not recorded yet
InFlight == Cardinality({s \in DOMAIN req : req[s].pc = "upstream" /\ req[s].endpoint = "analyze"})

\* the ledger of a run holds at most n rows: a request of the user is taken
\* while there is room for its row, or when its check refuses it
Bounded(n, user) ==
    \/ Len(ledger) + InFlight < n
    \/ \A limits \in _get_rate_limits(configs, user) :
          ~check_rate_limit(ledger, limits, user, now).allowed

\* analyze_trends up to the upstream call: the rate-limit check, and the 429
\* response when it raises
analyze_trends_begin_recording(s, user, data) ==
    /\ req[s].pc \in {"idle", "done"}
    /\ \E limits \in _get_rate_limits(configs, user) :
          LET chk == check_rate_limit(ledger, limits, user, now) IN
          IF chk.allowed
          THEN /\ req' = [req EXCEPT ![s] =
                      [IdleReq EXCEPT !.pc = "upstream", !.user = user,
                                      !.endpoint = "analyze", !.data = data, !.chk = chk]]
               /\ ledger' = ledger
          ELSE /\ req' = [req EXCEPT ![s] =
                      [IdleReq EXCEPT !.pc = "done", !.user = user,
                                      !.endpoint = "analyze", !.data = data, !.chk = chk,
                                      !.status = 429, !.raised = "HTTPException",
                                      !.response =
                                          <<TooManyRequests(chk, <<>>, <<>>, <<>>)>>]]
               /\ ledger' = record_usage(ledger, user, "analyze", FALSE, now)
    /\ UNCHANGED <<now, cache, stats, ret, lru, configs, lock, serial>>
analyze_trends_begin(s, user, data) ==
    /\ req[s].pc \in {"idle", "done"}
    /\ \E limits \in _get_rate_limits(configs, user) :
          LET chk == check_rate_limit(ledger, limits, user, now) IN
          IF chk.allowed
          THEN req' = [req EXCEPT ![s] =
                      [IdleReq EXCEPT !.pc = "upstream", !.user = user,
                                      !.endpoint = "analyze", !.data = data, !.chk = chk]]
          ELSE req' = [req EXCEPT ![s] =
                      [IdleReq EXCEPT !.pc = "done", !.user = user,
                                      !.endpoint = "analyze", !.data = data, !.chk = chk,
                                      !.status = 429, !.raised = "HTTPException",
                                      !.response =
                                          <<TooManyRequests(chk, <<>>, <<>>, <<>>)>>]]
    /\ UNCHANGED <<now, cache, stats, ret, lru, ledger, configs, lock, serial>>

\* analyze_trends from the upstream call on: try / except Exception / finally
analyze_trends_end(s, outcome) ==
    /\ req[s].pc = "upstream" /\ req[s].endpoint = "analyze"
    /\ LET success == outcome # "error" IN
       /\ ledger' = record_usage(ledger, req[s].user, "analyze", success, now)
       /\ req' = [req EXCEPT ![s].pc = "done", ![s].outcome = outcome,
                             ![s].events = Len(ledger') - Len(ledger),
                             ![s].status = IF outcome \in {"ok", "api_error"} THEN 200
                                           ELSE IF outcome = "error" THEN 500 ELSE 0,
                             ![s].raised = IF outcome \in {"ok", "api_error"} THEN None
                                           ELSE outcome]
    /\ UNCHANGED <<now, cache, stats, ret, lru, configs, lock, serial>>

\* get_my_quota: GET /usage/quota answers with the caller's remaining quota
get_my_quota(s, user) ==
    /\ req[s].pc \in {"idle", "done"}
    /\ \E limits \in _get_rate_limits(configs, user) :
          req' = [req EXCEPT ![s] =
                     [IdleReq EXCEPT !.pc = "done", !.user = user, !.endpoint = "quota",
                                     !.status = 200,
                                     !.quota = <<get_user_remaining_quota(ledger, limits,
                                                                         user, now)>>]]
    /\ UNCHANGED <<now, cache, stats, ret, lru, ledger, configs, lock, serial>>

\* the endpoints that call the service and return: expand_narrative,
\* equity_check, compliance_chat, socratic_guidance
PlainEndpoints == {"expand", "equity_check", "chat", "socratic"}

plain_endpoint_begin(s, user, endpoint, data) ==
    /\ req[s].pc \in {"idle", "done"}
    /\ req' = [req EXCEPT ![s] =
           [IdleReq EXCEPT !.pc = "upstream", !.user = user, !.endpoint = endpoint,
                           !.data = data]]
    /\ UNCHANGED <<now, cache, stats, ret, lru, ledger, configs, lock, serial>>

plain_endpoint_end(s, outcome) ==
    /\ req[s].pc = "upstream" /\ req[s].endpoint \in PlainEndpoints
    /\ req' = [req EXCEPT ![s].pc = "done", ![s].outcome = outcome,
                          ![s].status = IF outcome \in {"ok", "api_error"} THEN 200
                                        ELSE IF outcome = "error" THEN 500 ELSE 0,
                          ![s].raised = IF outcome \in {"ok", "api_error"} THEN None
                                        ELSE outcome]
    /\ UNCHANGED <<now, cache, stats, ret, lru, ledger, configs, lock, serial>>

\* compliance_chat_stream: the StreamingResponse is returned at once, and the
\* generator turns an exception of the stream into a "[ERROR]" event
compliance_chat_stream_begin(s, user, data) ==
    /\ req[s].pc \in {"idle", "done"}
    /\ req' = [req EXCEPT ![s] =
           [IdleReq EXCEPT !.pc = "upstream", !.user = user, !.endpoint = "chat_stream",
                           !.data = data, !.status = 200]]
    /\ UNCHANGED <<now, cache, stats, ret, lru, ledger, configs, lock, serial>>

compliance_chat_stream_end(s, outcome) ==
    /\ req[s].pc = "upstream" /\ req[s].endpoint = "chat_stream"
    /\ req' = [req EXCEPT ![s].pc = "done", ![s].outcome = outcome,
                          ![s].raised = IF outcome = "cancelled" THEN outcome ELSE None]
    /\ UNCHANGED <<now, cache, stats, ret, lru, ledger, configs, lock, serial>>

\* an AI result as the endpoints produce it, and one that carries "_endpoint"
PlainResult == [_endpoint |-> None, body |-> 1]
TaggedResult == [_endpoint |-> "chat", body |-> 2]

\* datetime.utcnow() advances by d seconds
Advance(d) ==
    /\ (now \div 3600) + ((now % 3600) \div 60) + (now % 60) < MaxTicks
    /\ now' = now + d
    /\ UNCHANGED <<cache, stats, ret, lru, ledger, configs, req, lock, serial>>

----------------------------------------------------------------------------
(* The rate limiter under every sequence of requests of one caller *)

Caller == [id |-> "u1", role |-> "faculty"]

\* rows of rate_limit_config: an override of the caller, one of the caller's
\* role, an inactive one of the caller, one of another user, and one that
\* gives the caller a single request
UserOverride == RateLimitConfig("user", "u1", 2, 3, 1000, TRUE)
RoleOverride == RateLimitConfig("role", "faculty", 2, 2, 500, TRUE)
SmallRoleOverride == RateLimitConfig("role", "faculty", 2, 2, 2, TRUE)
InactiveOverride == RateLimitConfig("user", "u1", 1, 1, 1, FALSE)
OtherOverride == RateLimitConfig("user", "u2", 1, 1, 1, TRUE)
SingleOverride == RateLimitConfig("user", "u1", 1, 1, 1, TRUE)

\* the tables of rate_limit_config the runs start from
ConfigTables ==
    { {},
      {InactiveOverride, OtherOverride},
      {UserOverride, RoleOverride},
      {SmallRoleOverride, InactiveOverride},
      {UserOverride, OtherOverride} }

LimiterPayload == << <<"a", 1>> >>

InitLimiter ==
    /\ now = 0
    /\ cache = <<>>
    /\ stats = CacheStats(0)
    /\ ret = [op |-> "init", val |-> <<>>]
    /\ lru = <<>>
    /\ ledger = <<>>
    /\ configs \in ConfigTables
    /\ req = [s \in {1} |-> IdleReq]
    /\ lock = NoThread
    /\ serial = <<cache, stats>>

NextLimiter ==
    \/ \E s \in DOMAIN req :
          Bounded(MaxLedger, Caller) /\ analyze_trends_begin(s, Caller, LimiterPayload)
    \/ \E s \in DOMAIN req, o \in {"ok", "error"} : analyze_trends_end(s, o)
    \/ \E d \in {1, 60, 3600} : Advance(d)

SpecLimiter == InitLimiter /\ [][NextLimiter]_vars

----------------------------------------------------------------------------
(* A faculty caller with no override: the defaults *)

InitFaculty ==
    /\ now = 0
    /\ cache = <<>>
    /\ stats = CacheStats(0)
    /\ ret = [op |-> "init", val |-> <<>>]
    /\ lru = <<>>
    /\ ledger = <<>>
    /\ configs \in {{}, {InactiveOverride, OtherOverride}}
    /\ req = [s \in {1} |-> IdleReq]
    /\ lock = NoThread
    /\ serial = <<cache, stats>>

NextFaculty ==
    \/ \E s \in DOMAIN req :
          Bounded(MaxCalls, Caller) /\ analyze_trends_begin(s, Caller, LimiterPayload)
    \/ \E s \in DOMAIN req : analyze_trends_end(s, "ok")
    \/ Advance(60)

SpecFaculty == InitFaculty /\ [][NextFaculty]_vars

----------------------------------------------------------------------------
(* Every AI endpoint, with every way the upstream call can end *)

InitEndpoints ==
    /\ now = 0
    /\ cache = <<>>
    /\ stats = CacheStats(0)
    /\ ret = [op |-> "init", val |-> <<>>]
    /\ lru = <<>>
    /\ ledger = <<>>
    /\ configs \in {{}, {SmallRoleOverride}}
    /\ req = [s \in {1} |-> IdleReq]
    /\ lock = NoThread
    /\ serial = <<cache, stats>>

NextEndpoints ==
    \/ \E s \in DOMAIN req :
          Bounded(MaxLedger, Caller) /\ analyze_trends_begin(s, Caller, LimiterPayload)
    \/ \E s \in DOMAIN req, o \in Outcomes : analyze_trends_end(s, o)
    \/ \E s \in DOMAIN req, e \in PlainEndpoints :
          plain_endpoint_begin(s, Caller, e, LimiterPayload)
    \/ \E s \in DOMAIN req, o \in Outcomes : plain_endpoint_end(s, o)
    \/ \E s \in DOMAIN req : compliance_chat_stream_begin(s, Caller, LimiterPayload)
    \/ \E s \in DOMAIN req, o \in Outcomes : compliance_chat_stream_end(s, o)
    \/ Advance(60)

SpecEndpoints == InitEndpoints /\ [][NextEndpoints]_vars

----------------------------------------------------------------------------
(* The analyze endpoint next to the response cache *)

InitSystem ==
    /\ now = 0
    /\ cache = <<>>
    /\ stats = CacheStats(0)
    /\ ret = [op |-> "init", val |-> <<>>]
    /\ lru = <<>>
    /\ ledger = <<>>
    /\ configs \in {{}, {SmallRoleOverride}}
    /\ req = [s \in {1} |-> IdleReq]
    /\ lock = NoThread
    /\ serial = <<cache, stats>>

NextSystem ==
    \/ \E t \in {NoInt, <<60>>} : set("analyze", LimiterPayload, PlainResult, t, None)
    \/ \E s \in DOMAIN req :
          Bounded(MaxLedger, Caller) /\ analyze_trends_begin(s, Caller, LimiterPayload)
    \/ \E s \in DOMAIN req, o \in {"ok", "error"} : analyze_trends_end(s, o)
    \/ Advance(60)

SpecSystem == InitSystem /\ [][NextSystem]_vars

----------------------------------------------------------------------------
(* One caller whose recorded requests grow older than a day *)

InitAging ==
    /\ now = 0
    /\ cache = <<>>
    /\ stats = CacheStats(0)
    /\ ret = [op |-> "init", val |-> <<>>]
    /\ lru = <<>>
    /\ ledger = <<>>
    /\ configs \in {{SmallRoleOverride, InactiveOverride}, {UserOverride, RoleOverride},
                    {SingleOverride}}
    /\ req = [s \in {1} |-> IdleReq]
    /\ lock = NoThread
    /\ serial = <<cache, stats>>

NextAging ==
    \/ \E s \in DOMAIN req :
          Bounded(MaxLedger, Caller) /\ analyze_trends_begin(s, Caller, LimiterPayload)
    \/ \E s \in DOMAIN req, o \in {"ok", "error"} : analyze_trends_end(s, o)
    \/ \E d \in {1, 60, 3600, 86400} : Advance(d)

SpecAging == InitAging /\ [][NextAging]_vars

----------------------------------------------------------------------------
(* Two requests of one caller served at the same time *)

InitRace ==
    /\ now = 0
    /\ cache = <<>>
    /\ stats = CacheStats(0)
    /\ ret = [op |-> "init", val |-> <<>>]
    /\ lru = <<>>
    /\ ledger = <<>>
    /\ configs \in {{SmallRoleOverride}, {UserOverride, RoleOverride}}
    /\ req = [s \in {1, 2} |-> IdleReq]
    /\ lock = NoThread
    /\ serial = <<cache, stats>>

NextRace ==
    \/ \E s \in DOMAIN req :
          Bounded(MaxLedger, Caller) /\ analyze_trends_begin(s, Caller, LimiterPayload)
    \/ \E s \in DOMAIN req, o \in {"ok", "error"} : analyze_trends_end(s, o)
    \/ Advance(60)

SpecRace == InitRace /\ [][NextRace]_vars

\* the same requests, and the caller asking for the remaining quota
NextQuota ==
    \/ \E s \in DOMAIN req :
          Bounded(MaxLedger, Caller) /\ analyze_trends_begin(s, Caller, LimiterPayload)
    \/ \E s \in DOMAIN req, o \in {"ok", "error"} : analyze_trends_end(s, o)
    \/ \E s \in DOMAIN req : get_my_quota(s, Caller)
    \/ Advance(60)

SpecQuota == InitRace /\ [][NextQuota]_vars

----------------------------------------------------------------------------
(* Two callers, and usage recorded for several endpoints *)

\* a second caller, of the same role
OtherCaller == [id |-> "u2", role |-> "faculty"]

Callers == {Caller, OtherCaller}

\* RateLimiterService.check_rate_limit(session, user, endpoint): the endpoint
\* is handed to _count_requests, whose query does not use it
check_rate_limit_on(rows, limits, user, endpoint, t) ==
    check_rate_limit(rows, limits, user, t)

\* RateLimiterService.record_usage is called for a request of some endpoint
record_usage_called(user, endpoint) ==
    /\ Len(ledger) + InFlight < MaxLedger
    /\ ledger' = record_usage(ledger, user, endpoint, TRUE, now)
    /\ UNCHANGED <<now, cache, stats, ret, lru, configs, req, lock, serial>>

InitCallers ==
    /\ now = 0
    /\ cache = <<>>
    /\ stats = CacheStats(0)
    /\ ret = [op |-> "init", val |-> <<>>]
    /\ lru = <<>>
    /\ ledger = <<>>
    /\ configs \in {{SmallRoleOverride, OtherOverride}, {UserOverride, RoleOverride}}
    /\ req = [s \in {1} |-> IdleReq]
    /\ lock = NoThread
    /\ serial = <<cache, stats>>

NextCallers ==
    \/ \E s \in DOMAIN req, u \in Callers :
          Bounded(MaxLedger, u) /\ analyze_trends_begin(s, u, LimiterPayload)
    \/ \E s \in DOMAIN req : analyze_trends_end(s, "ok")
    \/ \E u \in Callers : record_usage_called(u, "chat")
    \/ Tick

SpecCallers == InitCallers /\ [][NextCallers]_vars

----------------------------------------------------------------------------
(* The cache under every sequence of its operations *)

\* the stores: endpoint, payload, and the value and ttl stored for them (ttl:
\* the endpoint's default, or 0 for an entry that expires after this instant)
CacheCalls ==
    { <<"analyze", << <<"a", 1>>, <<"b", 2>> >>, PlainResult, <<0>> >>,
      <<"analyze", << <<"a", 2>> >>, TaggedResult, NoInt>>,
      <<"chat", << <<"a", 1>>, <<"b", 2>> >>, TaggedResult, <<0>> >> }

\* the lookups and invalidations: the stored payloads, and the first of them
\* once more as the same dict in the other insertion order
CacheLookups ==
    {<<c[1], c[2]>> : c \in CacheCalls}
        \cup { <<"analyze", << <<"b", 2>>, <<"a", 1>> >> >> }

InitCache ==
    /\ now = 0
    /\ cache = <<>>
    /\ stats = CacheStats(0)
    /\ ret = [op |-> "init", val |-> <<>>]
    /\ lru = <<>>
    /\ ledger = <<>>
    /\ configs = {}
    /\ req = [s \in {1} |-> IdleReq]
    /\ lock = NoThread
    /\ serial = <<cache, stats>>

NextCache ==
    \/ \E c \in CacheLookups : get(c[1], c[2], None)
    \/ \E c \in CacheCalls : set(c[1], c[2], c[3], c[4], None)
    \/ \E c \in CacheLookups : invalidate(c[1], c[2], None)
    \/ \E e \in {"analyze", "chat"} : invalidate_by_endpoint(e)
    \/ clear
    \/ cleanup_expired
    \/ get_stats
    \/ reset_stats
    \/ Tick

SpecCache == InitCache /\ [][NextCache]_vars

----------------------------------------------------------------------------
(* The cache used by several threads at once *)

Threads == {1, 2}

InitThreads ==
    /\ now = 0
    /\ cache = <<>>
    /\ stats = CacheStats(0)
    /\ ret = [op |-> "init", val |-> <<>>]
    /\ lru = <<>>
    /\ ledger = <<>>
    /\ configs = {}
    /\ req = [s \in Threads |-> IdleThread]
    /\ lock = NoThread
    /\ serial = <<cache, stats>>

\* the operations the threads call: every store, and a lookup, an
\* invalidation and a sweep
ThreadOps ==
    {<<"set", c>> : c \in CacheCalls}
        \cup {<<"get", c>> : c \in {x \in CacheCalls : x[1] = "analyze" /\ x[4] # NoInt}}
        \cup {<<"invalidate", c>> : c \in {x \in CacheCalls : x[1] = "chat"}}
        \cup {<<"cleanup_expired", c>> : c \in {x \in CacheCalls : x[1] = "chat"}}

NextThreads ==
    \/ \E s \in Threads, o \in ThreadOps :
          thread_call(s, o[1], o[2][1], o[2][2], o[2][3], o[2][4], None)
    \/ \E s \in Threads : acquire(s)
    \/ \E s \in Threads : release(s)
    \/ Tick

SpecThreads == InitThreads /\ [][NextThreads]_vars

----------------------------------------------------------------------------
(* Functions wrapped by cached_ai_response, called by several requests *)

\* the arguments of the decorator
Decorators ==
    { [endpoint |-> "analyze", ttl |-> NoInt, include_user |-> FALSE],
      [endpoint |-> "chat", ttl |-> <<0>>, include_user |-> TRUE] }

\* the keyword arguments of a call
NoKwargs == [data |-> <<>>, prompt |-> <<>>, user_id |-> None, bypass_cache |-> FALSE]

\* the calls of the wrapped function: positional and keyword arguments (the
\* third one passes data and user_id by position)
WrapperCalls ==
    { << <<LimiterPayload>>, NoKwargs >>,
      << <<LimiterPayload>>, [NoKwargs EXCEPT !.user_id = "u1"] >>,
      << <<LimiterPayload, "u2">>, NoKwargs >>,
      << <<LimiterPayload>>, [NoKwargs EXCEPT !.bypass_cache = TRUE] >>,
      << <<>>, [NoKwargs EXCEPT !.data = << LimiterPayload >>] >> }

InitWrapper ==
    /\ now = 0
    /\ cache = <<>>
    /\ stats = CacheStats(0)
    /\ ret = [op |-> "init", val |-> <<>>]
    /\ lru = <<>>
    /\ ledger = <<>>
    /\ configs = {}
    /\ req = [s \in Threads |-> IdleThread]
    /\ lock = NoThread
    /\ serial = <<cache, stats>>

NextWrapper ==
    \/ \E s \in Threads, d \in Decorators, c \in WrapperCalls : wrapper_call(s, d, c[1], c[2])
    \/ \E s \in Threads : acquire(s)
    \/ \E s \in Threads : release(s)
    \/ \E s \in Threads, o \in {"ok", "error", "cancelled"} : wrapper_return(s, o, PlainResult)
    \/ Tick

SpecWrapper == InitWrapper /\ [][NextWrapper]_vars

----------------------------------------------------------------------------
(* Entries with a time to live of some seconds, looked up as time passes *)

\* the stores: endpoint, payload, value and ttl in seconds
TtlCalls ==
    { <<"analyze", << <<"a", 1>> >>, PlainResult, <<2>> >>,
      <<"chat", << <<"a", 1>> >>, TaggedResult, <<1>> >> }

InitTtl ==
    /\ now = 0
    /\ cache = <<>>
    /\ stats = CacheStats(0)
    /\ ret = [op |-> "init", val |-> <<>>]
    /\ lru = <<>>
    /\ ledger = <<>>
    /\ configs = {}
    /\ req = [s \in {1} |-> IdleReq]
    /\ lock = NoThread
    /\ serial = <<cache, stats>>

NextTtl ==
    \/ \E c \in TtlCalls : set(c[1], c[2], c[3], c[4], None)
    \/ \E c \in TtlCalls : get(c[1], c[2], None)
    \/ cleanup_expired
    \/ reset_stats
    \/ Advance(1)

SpecTtl == InitTtl /\ [][NextTtl]_vars

----------------------------------------------------------------------------
(* One fingerprint looked up while entries come and go *)

\* the stores: endpoint, payload, value and ttl (seconds, or the default)
LifeCalls ==
    { <<"analyze", << <<"a", 1>> >>, PlainResult, <<1>> >>,
      <<"analyze", << <<"a", 2>> >>, TaggedResult, NoInt>>,
      <<"chat", << <<"a", 1>> >>, TaggedResult, <<2>> >> }

\* the lookups and invalidations: those of the first fingerprint
LifeLookups == { <<"analyze", << <<"a", 1>> >> >> }

InitLife ==
    /\ now = 0
    /\ cache = <<>>
    /\ stats = CacheStats(0)
    /\ ret = [op |-> "init", val |-> <<>>]
    /\ lru = <<>>
    /\ ledger = <<>>
    /\ configs = {}
    /\ req = [s \in {1} |-> IdleReq]
    /\ lock = NoThread
    /\ serial = <<cache, stats>>

NextLife ==
    \/ \E c \in LifeCalls : set(c[1], c[2], c[3], c[4], None)
    \/ \E c \in LifeLookups : get(c[1], c[2], None)
    \/ \E c \in LifeLookups : invalidate(c[1], c[2], None)
    \/ cleanup_expired
    \/ reset_stats
    \/ Advance(1)

SpecLife == InitLife /\ [][NextLife]_vars

----------------------------------------------------------------------------
(* Payloads stored in one field order and looked up in another *)

\* the payloads stored: {"a": 1, "b": {"a": 1, "b": 2}}, the same with the
\* inner values exchanged, and {"a": 1, "b": 2}
KeyStores ==
    { <<"analyze", << <<"a", 1>>, <<"b", "dict", << <<"a", 1>>, <<"b", 2>> >> >> >>,
        PlainResult>>,
      <<"analyze", << <<"a", 1>>, <<"b", "dict", << <<"a", 2>>, <<"b", 1>> >> >> >>,
        TaggedResult>>,
      <<"analyze", << <<"a", 1>>, <<"b", 2>> >>, [_endpoint |-> None, body |-> 3]>> }

\* the payloads looked up: the first one with its outer fields, its inner
\* fields, or both in the other order, and the third one in the other order
KeyLookups ==
    { <<"analyze", << <<"b", "dict", << <<"a", 1>>, <<"b", 2>> >> >>, <<"a", 1>> >> >>,
      <<"analyze", << <<"a", 1>>, <<"b", "dict", << <<"b", 2>>, <<"a", 1>> >> >> >> >>,
      <<"analyze", << <<"b", "dict", << <<"b", 2>>, <<"a", 1>> >> >>, <<"a", 1>> >> >>,
      <<"analyze", << <<"b", 2>>, <<"a", 1>> >> >> }

InitKey ==
    /\ now = 0
    /\ cache = <<>>
    /\ stats = CacheStats(0)
    /\ ret = [op |-> "init", val |-> <<>>]
    /\ lru = <<>>
    /\ ledger = <<>>
    /\ configs = {}
    /\ req = [s \in {1} |-> IdleReq]
    /\ lock = NoThread
    /\ serial = <<cache, stats>>

NextKey ==
    \/ \E c \in KeyStores : set(c[1], c[2], c[3], NoInt, None)
    \/ \E c \in KeyLookups : get(c[1], c[2], None)
    \/ \E c \in KeyLookups : invalidate(c[1], c[2], None)
    \/ reset_stats
    \/ Tick

SpecKey == InitKey /\ [][NextKey]_vars

----------------------------------------------------------------------------
(* The counters of the cache while wrapped functions are called *)

\* the calls of a function wrapped with a ttl of 0 seconds: the same data
\* without a caller and for the caller u1
StatsDecorator == [endpoint |-> "chat", ttl |-> <<0>>, include_user |-> TRUE]
StatsCalls ==
    { << <<LimiterPayload>>, NoKwargs >>,
      << <<LimiterPayload>>, [NoKwargs EXCEPT !.user_id = "u1"] >> }

InitStats ==
    /\ now = 0
    /\ cache = <<>>
    /\ stats = CacheStats(0)
    /\ ret = [op |-> "init", val |-> <<>>]
    /\ lru = <<>>
    /\ ledger = <<>>
    /\ configs = {}
    /\ req = [s \in Threads |-> IdleThread]
    /\ lock = NoThread
    /\ serial = <<cache, stats>>

\* thread 1 calls the wrapped functions, thread 2 resets the statistics
NextStats ==
    \/ \E c \in StatsCalls : wrapper_call(1, StatsDecorator, c[1], c[2])
    \/ thread_call(2, "reset_stats", "analyze", LimiterPayload, PlainResult, NoInt, None)
    \/ \E s \in Threads : acquire(s)
    \/ \E s \in Threads : release(s)
    \/ wrapper_return(1, "ok", PlainResult)
    \/ Tick

SpecStats == InitStats /\ [][NextStats]_vars

----------------------------------------------------------------------------
(* Fingerprints stored again with another value while entries are removed *)

\* the stores: endpoint, payload, value and ttl; the first two have the same
\* fingerprint with different values and times to live
StoreCalls ==
    { <<"analyze", << <<"a", 1>> >>, PlainResult, <<0>> >>,
      <<"analyze", << <<"a", 1>> >>, TaggedResult, <<1>> >>,
      <<"chat", << <<"a", 1>> >>, TaggedResult, NoInt>>,
      <<"expand", << <<"a", 1>> >>, PlainResult, <<0>> >> }

\* the lookups and invalidations: the first and the last fingerprint
StoreLookups == {<<c[1], c[2]>> : c \in {x \in StoreCalls : x[4] = <<0>>}}

InitStore ==
    /\ now = 0
    /\ cache = <<>>
    /\ stats = CacheStats(0)
    /\ ret = [op |-> "init", val |-> <<>>]
    /\ lru = <<>>
    /\ ledger = <<>>
    /\ configs = {}
    /\ req = [s \in {1} |-> IdleReq]
    /\ lock = NoThread
    /\ serial = <<cache, stats>>

NextStore ==
    \/ \E c \in StoreCalls : set(c[1], c[2], c[3], c[4], None)
    \/ \E c \in StoreLookups : get(c[1], c[2], None)
    \/ \E c \in StoreLookups : invalidate(c[1], c[2], None)
    \/ invalidate_by_endpoint("chat")
    \/ clear
    \/ cleanup_expired
    \/ reset_stats
    \/ Tick

SpecStore == InitStore /\ [][NextStore]_vars

----------------------------------------------------------------------------
(* AICache.set run statement by statement on caches of several capacities *)

\* the values of max_size the cache is constructed with
Capacities == {0, 1, max_size}

\* a thread that is in no store, on a cache constructed with max_size = cap
StoreFrame(cap) ==
    [pc |-> "idle", max_size |-> cap, op |-> CacheOp("none", <<>>, NoEntry),
     view |-> <<>>]

\* set is called: the key and the entry are built, `with self._lock:` is
\* entered and `key in self._cache` is tested
set_enter(s, endpoint, prompt_data, value, ttl, user_id) ==
    LET key == _generate_key(endpoint, prompt_data, user_id)
        t == IF ttl = NoInt THEN DefaultTtl(endpoint) ELSE ttl[1]
        full == cache # <<>> /\ Len(cache) >= req[s].max_size
    IN  /\ req[s].pc = "idle"
        /\ LockFree(s)
        /\ (key \notin Keys(cache) /\ full) => stats.evictions < MaxEvictions
        /\ lock' = s
        /\ req' = [req EXCEPT ![s].pc = IF key \in Keys(cache) THEN "update" ELSE "loop",
                              ![s].op = CacheOp("set", key, CacheEntry(key, value, now, t)),
                              ![s].view = <<cache, stats>>]
        /\ UNCHANGED <<now, cache, stats, ret, lru, ledger, configs, serial>>

\* the key is held: the entry is replaced and moved to the end, set returns
set_update(s) ==
    LET op == req[s].op IN
    /\ req[s].pc = "update"
    /\ cache' = move_to_end([cache EXCEPT ![IndexOf(cache, op.key)] = op.entry], op.key)
    /\ ret' = Returned("set", op.key)
    /\ lru' = Held(Touch(lru, op.key), Keys(cache'))
    /\ lock' = NoThread
    /\ req' = [req EXCEPT ![s] = StoreFrame(req[s].max_size)]
    /\ UNCHANGED <<now, stats, ledger, configs, serial>>

\* one iteration of `while len(self._cache) >= self.max_size:
\* self._evict_oldest()`
evict_iteration(s) ==
    LET cs == _evict_oldest(<<cache, stats>>) IN
    /\ req[s].pc = "loop"
    /\ Len(cache) >= req[s].max_size
    /\ cache' = cs[1]
    /\ stats' = cs[2]
    /\ lru' = Held(lru, Keys(cache'))
    /\ UNCHANGED <<now, ret, ledger, configs, req, lock, serial>>

\* the loop has ended: the entry is added, current_size is set, the lock is
\* left and set returns
set_insert(s) ==
    LET op == req[s].op IN
    /\ req[s].pc = "loop"
    /\ ~(Len(cache) >= req[s].max_size)
    /\ cache' = Append(cache, op.entry)
    /\ stats' = [stats EXCEPT !.current_size = Len(cache')]
    /\ ret' = Returned("set", op.key)
    /\ lru' = Held(Touch(lru, op.key), Keys(cache'))
    /\ lock' = NoThread
    /\ req' = [req EXCEPT ![s] = StoreFrame(req[s].max_size)]
    /\ UNCHANGED <<now, ledger, configs, serial>>

InitEvict ==
    /\ now = 0
    /\ cache = <<>>
    /\ stats = CacheStats(0)
    /\ ret = [op |-> "init", val |-> <<>>]
    /\ lru = <<>>
    /\ ledger = <<>>
    /\ configs = {}
    /\ \E cap \in Capacities : req = [s \in {1} |-> StoreFrame(cap)]
    /\ lock = NoThread
    /\ serial = <<cache, stats>>

\* the other operations take the lock too: they run when no store holds it
NextEvict ==
    \/ \E c \in LifeCalls : set_enter(1, c[1], c[2], c[3], c[4], None)
    \/ set_update(1)
    \/ evict_iteration(1)
    \/ set_insert(1)
    \/ \E c \in LifeLookups : lock = NoThread /\ get(c[1], c[2], None)
    \/ \E c \in LifeLookups : lock = NoThread /\ invalidate(c[1], c[2], None)
    \/ lock = NoThread /\ reset_stats
    \/ Tick

\* a thread that is inside set runs on: its next statement is executed
SpecEvict ==
    /\ InitEvict
    /\ [][NextEvict]_vars
    /\ WF_vars(set_update(1))
    /\ WF_vars(evict_iteration(1))
    /\ WF_vars(set_insert(1))

----------------------------------------------------------------------------
(* Claims about the cache *)

\* C1: after any sequence of cache operations on a cache of capacity
\* max_size >= 1 the cache holds at most max_size entries.
C1_SizeAtMostCapacity == Len(cache) <= max_size

\* C1 witness: a store at capacity has evicted and the cache is full again
C1_Witness == ret.op = "set" /\ stats.evictions > 0 /\ Len(cache) = max_size

\* C2: a lookup never returns the value of an entry whose expires_at has
\* passed at the time of the lookup: a value returned is the value of the
\* entry held under the key, and that entry's expires_at has not passed.
C2_NoExpiredHit ==
    [][\A c \in CacheLookups :
          (get(c[1], c[2], None) /\ ret'.val # <<>>) =>
              \E i \in 1..Len(cache) :
                  /\ cache[i].key = _generate_key(c[1], c[2], None)
                  /\ cache[i].value = ret'.val[1]
                  /\ ~(now > cache[i].expires_at)]_vars

\* C2 witness: a lookup has just hit (at this instant) while an entry whose
\* expires_at has passed is still held by the cache
C2_Witness ==
    /\ ret.op = "get" /\ ret.val # <<>>
    /\ cache # <<>> /\ Last(cache).hit_count > 0 /\ Last(cache).last_accessed = now
    /\ \E i \in 1..Len(cache) : now > cache[i].expires_at

\* C3: a store of a key that is not in the cache, made while the cache holds
\* exactly max_size entries, removes exactly one entry, the least recently
\* used one (stored or hit longest ago); the most recently used entry stays
\* while older entries remain.
C3_EvictsLeastRecentlyUsed ==
    [][\A c \in CacheCalls :
          LET key == _generate_key(c[1], c[2], None) IN
          (set(c[1], c[2], c[3], c[4], None) /\ key \notin Keys(cache)
                                            /\ Len(cache) = max_size) =>
              /\ Keys(cache') = (Keys(cache) \ {Head(lru)}) \cup {key}
              /\ Len(cache') = max_size
              /\ Cardinality(Keys(cache) \ Keys(cache')) = 1
              /\ stats'.evictions = stats.evictions + 1
              /\ (max_size > 1 => Last(lru) \in Keys(cache'))]_vars

\* C3 witness: a store has evicted from a full cache in which the oldest
\* insertion had been hit: the hit entry is still held, next to the new one
C3_Witness ==
    /\ ret.op = "set" /\ stats.evictions = 1 /\ Len(cache) = max_size
    /\ cache[1].hit_count = 1
    /\ Last(cache).key = ret.val /\ Last(cache).hit_count = 0
    /\ cache[1].created_at <= Last(cache).created_at

----------------------------------------------------------------------------
(* Claims about the rate limiter and the endpoints *)

\* the rows of the ledger that the user recorded within the last secs seconds
CallsWithin(user_id, secs) ==
    Cardinality({i \in 1..Len(ledger) :
        ledger[i].user_id = user_id /\ now - ledger[i].request_timestamp <= secs})

\* the rate-limit check has just refused the request in slot s for window w
RefusedFor(r, w) == ~r.chk.allowed /\ r.chk.limit_type = w

\* C4: with T the caller's per-minute threshold, a check raises
\* RateLimitExceeded for the minute window exactly when the caller has
\* recorded T or more calls within the last 60 seconds: calls 1..T of a
\* minute are not refused for it and the (T+1)-th is, with the count and T.
C4_MinuteThreshold ==
    [][\A s \in DOMAIN req :
          analyze_trends_begin(s, Caller, LimiterPayload) =>
              LET r == req'[s]
                  T == r.chk.limits.requests_per_minute
                  n == CallsWithin(Caller.id, 60)
              IN  /\ (n >= T) <=> RefusedFor(r, "minute")
                  /\ RefusedFor(r, "minute") =>
                        r.chk.current_count = n /\ r.chk.limit = T /\ r.status = 429]_vars

\* C4 witness: T calls were recorded within the minute and the (T+1)-th check
\* has raised for the minute window
C4_Witness ==
    /\ req[1].pc = "done" /\ RefusedFor(req[1], "minute")
    /\ req[1].chk.current_count = req[1].chk.limit
    /\ Len(ledger) = req[1].chk.limit
    /\ CallsWithin(Caller.id, 60) = Len(ledger)
    /\ now > 0

\* C5: for a Faculty caller with no override the thresholds are 5 per
\* minute, 50 per hour and 200 per day: a check with fewer than five calls
\* recorded in the minute passes, and the check after five calls recorded in
\* the minute raises with window = minute, current = 5 and limit = 5.
C5_FacultySixthCallRefused ==
    [][\A s \in DOMAIN req :
          (analyze_trends_begin(s, Caller, LimiterPayload) /\ Caller.role = "faculty"
              /\ CallsWithin(Caller.id, 60) = 5) =>
              LET r == req'[s] IN
              /\ r.chk.limits = Policy(5, 50, 200)
              /\ RefusedFor(r, "minute")
              /\ r.chk.current_count = 5 /\ r.chk.limit = 5]_vars

\* the key of DEFAULT_RATE_LIMITS that names each role
TableKey ==
    [faculty |-> "Faculty", chair |-> "Chair", dean |-> "Dean", admin |-> "Admin",
     proc |-> "PROC"]

\* C6: the policy used by a check is that of an active override keyed to the
\* caller's identity when one exists, otherwise that of an active override
\* keyed to the caller's role, otherwise the built-in default of the role.
C6_ResolutionOrder ==
    \A s \in DOMAIN req :
        req[s].chk.counted # <<>> =>
            LET u == req[s].user
                by_user == {c \in configs : c.target_type = "user" /\ c.target_value = u.id
                                             /\ c.is_active}
                by_role == {c \in configs : c.target_type = "role" /\ c.target_value = u.role
                                             /\ c.is_active}
            IN  req[s].chk.limits \in
                    IF by_user # {} THEN {LimitsOf(c) : c \in by_user}
                    ELSE IF by_role # {} THEN {LimitsOf(c) : c \in by_role}
                    ELSE {DEFAULT_RATE_LIMITS[TableKey[u.role]]}

\* C6, the part about overrides: an active override of the caller wins over
\* one of the role, an active override of the role is used when the caller
\* has none, and an inactive override is never used.
C6_OverridePrecedence ==
    \A s \in DOMAIN req :
        req[s].chk.counted # <<>> =>
            LET u == req[s].user
                by_user == {c \in configs : c.target_type = "user" /\ c.target_value = u.id
                                             /\ c.is_active}
                by_role == {c \in configs : c.target_type = "role" /\ c.target_value = u.role
                                             /\ c.is_active}
            IN  /\ by_user # {} => req[s].chk.limits \in {LimitsOf(c) : c \in by_user}
                /\ (by_user = {} /\ by_role # {}) =>
                      req[s].chk.limits \in {LimitsOf(c) : c \in by_role}

\* C6_OverridePrecedence is met: a check ran with 1000 per day from the
\* caller's override while the role's override says 500
C6_PrecedenceWitness ==
    /\ {UserOverride, RoleOverride} \subseteq configs
    /\ req[1].chk.counted # <<>>
    /\ req[1].chk.limits.requests_per_day = 1000

\* C7: the check counts the windows in the order minute, hour, day and raises
\* for the first one at or over its threshold without counting the others:
\* minute is named whenever it is over, hour only when minute is under, day
\* only when minute and hour are under.
C7_WindowOrder ==
    [][\A s \in DOMAIN req :
          analyze_trends_begin(s, Caller, LimiterPayload) =>
              LET r == req'[s]
                  over_minute == CallsWithin(Caller.id, 60) >= r.chk.limits.requests_per_minute
                  over_hour == CallsWithin(Caller.id, 3600) >= r.chk.limits.requests_per_hour
                  over_day == CallsWithin(Caller.id, 86400) >= r.chk.limits.requests_per_day
              IN  /\ over_minute =>
                        RefusedFor(r, "minute") /\ r.chk.counted = <<"minute">>
                  /\ (~over_minute /\ over_hour) =>
                        RefusedFor(r, "hour") /\ r.chk.counted = <<"minute", "hour">>
                  /\ (~over_minute /\ ~over_hour /\ over_day) =>
                        RefusedFor(r, "day") /\ r.chk.counted = <<"minute", "hour", "day">>
                  /\ (~over_minute /\ ~over_hour /\ ~over_day) =>
                        r.chk.allowed /\ r.chk.counted = <<"minute", "hour", "day">>]_vars

\* C7 witness: a check has raised for the day window after it counted the
\* minute and the hour window and found them under their thresholds
C7_Witness ==
    /\ req[1].pc = "done" /\ RefusedFor(req[1], "day")
    /\ req[1].chk.counted = <<"minute", "hour", "day">>
    /\ CallsWithin(Caller.id, 60) < req[1].chk.limits.requests_per_minute
    /\ CallsWithin(Caller.id, 3600) < req[1].chk.limits.requests_per_hour

\* C8: every AI request that reached the upstream call has appended exactly
\* one row to the ledger when it is done, on every AI endpoint.
C8_ExactlyOneUsageEvent ==
    \A s \in DOMAIN req :
        (req[s].pc = "done" /\ req[s].outcome # None) => req[s].events = 1

\* the response cache holds an entry for the request that has not expired
CachedFor(endpoint, data) ==
    \E i \in 1..Len(cache) :
        /\ cache[i].key = _generate_key(endpoint, data, None)
        /\ now <= cache[i].expires_at

\* C9: a request whose cache lookup hits is answered from the cache: no
\* rate-limit check is made for it and no row is appended to the ledger.
C9_CacheHitBypassesLimiter ==
    [][\A s \in DOMAIN req :
          /\ (analyze_trends_begin(s, Caller, LimiterPayload)
                  /\ CachedFor("analyze", LimiterPayload)) =>
                (req'[s].pc = "done" /\ req'[s].status = 200 /\ req'[s].chk.counted = <<>>)
          /\ (CachedFor("analyze", LimiterPayload) /\ req[s].endpoint = "analyze") =>
                ledger' = ledger]_vars

\* C10: when the upstream call failed, the request has appended one row with
\* success = false, the row counts in the three windows like any other, and
\* the failure is raised to the endpoint layer.
C10_FailureRecordedAndRaised ==
    \A s \in DOMAIN req :
        (req[s].pc = "done" /\ req[s].outcome \in {"api_error", "error"}) =>
            /\ req[s].events = 1
            /\ ~Last(ledger).success
            /\ \A w \in 1..3 :
                  _count_requests(ledger, req[s].user.id, now - Windows[w].duration)
                      = CallsWithin(req[s].user.id, Windows[w].duration)
            /\ req[s].raised # None

----------------------------------------------------------------------------
(* Claims about failures, cancellation and the fallback policy *)

\* the ways the awaited function fails
Failures == {"error", "cancelled"}

\* C11: an upstream call that fails never populates the cache: when the
\* function awaited by the wrapper raises after a miss, the wrapper is left
\* without a call of set, and the cache and its counters are as before.
C11_FailedCallStoresNothing ==
    [][\A s \in Threads, o \in Failures :
          wrapper_return(s, o, PlainResult) =>
              /\ cache' = cache /\ stats' = stats
              /\ req'[s].pc = "done" /\ req'[s].op.name # "set"
              /\ req'[s].raised = o]_vars

\* C11 witness: a request missed, its upstream call raised, and no entry is
\* held under its key
C11_Witness ==
    /\ req[1].pc = "done" /\ req[1].outcome = "error"
    /\ req[1].val = Returned("get", <<>>)
    /\ req[1].call[1].key \notin Keys(cache)
    /\ stats.misses > 0

\* C12: when the upstream call of a request is cancelled, nothing is stored
\* in the cache and the row appended for it is marked as failed
\* (success = false), so the aborted call counts as a failed one.
C12_CancelledCallRecordedAsFailed ==
    \A s \in DOMAIN req :
        (req[s].pc = "done" /\ req[s].endpoint = "analyze"
                            /\ req[s].outcome = "cancelled") =>
            /\ cache = <<>>
            /\ req[s].events = 1
            /\ ~Last(ledger).success

\* C13: for a caller whose role is not a key of the built-in table and who
\* has no override, the policy used by a check is the most conservative
\* built-in one: none of its three thresholds is larger than that of any
\* role of the table.
C13_FallbackMostConservative ==
    \A s \in DOMAIN req :
        LET u == req[s].user IN
        (/\ req[s].chk.counted # <<>>
         /\ u.role \notin DOMAIN DEFAULT_RATE_LIMITS
         /\ ActiveRows(configs, "user", u.id) = {}
         /\ ActiveRows(configs, "role", u.role) = {}) =>
            \A r \in DOMAIN DEFAULT_RATE_LIMITS, k \in DOMAIN FallbackLimits :
                req[s].chk.limits[k] <= DEFAULT_RATE_LIMITS[r][k]

\* the window of check_rate_limit with the given name
WindowNamed(name) == CHOOSE w \in {Windows[i] : i \in 1..Len(Windows)} : w.name = name

\* C14: RateLimitExceeded carries the window, the count, the limit and the
\* reset time, with count >= limit, and waiting until the reset time
\* recovers: with no further rows recorded for the caller, a check made at
\* reset_time no longer finds the window at or over its limit.
C14_RecoverableAtResetTime ==
    \A s \in DOMAIN req :
        ~req[s].chk.allowed =>
            LET c == req[s].chk
                w == WindowNamed(c.limit_type)
            IN  /\ c.current_count >= c.limit
                /\ _count_requests(ledger, req[s].user.id, c.reset_time - w.duration)
                      < c.limit

----------------------------------------------------------------------------
(* Claims about concurrency *)

\* C15: the check and the later append are not atomic. A check looks at the
\* rows recorded so far only: a request passes whenever every window holds
\* fewer recorded rows than its limit, whatever number of requests of the
\* caller have passed the check and not recorded yet.
C15_CheckIgnoresRequestsInFlight ==
    [][\A s \in DOMAIN req :
          analyze_trends_begin(s, Caller, LimiterPayload) =>
              LET r == req'[s]
                  under == \A i \in 1..Len(Windows) :
                              CallsWithin(Caller.id, Windows[i].duration)
                                  < r.chk.limits[Windows[i].limit_key]
              IN  under => (r.chk.allowed /\ r.pc = "upstream")]_vars

\* C15 witness: two requests of the caller both passed the check and both
\* recorded, and the minute window now holds more rows than its limit
C15_Witness ==
    /\ \A s \in {1, 2} : req[s].pc = "done" /\ req[s].chk.allowed /\ req[s].events = 1
    /\ req[1].chk.limits = req[2].chk.limits
    /\ CallsWithin(Caller.id, 60) > req[1].chk.limits.requests_per_minute

\* C16: under any interleaving of lookups, stores, invalidations and sweeps
\* of several threads, the cache and its counters change only in a step of
\* the thread that holds the lock, and after every step the entries, their
\* order and the counters are those of the same operations run one after
\* another in the order in which they took the lock.
C16_SerialisedByTheLock ==
    [][/\ <<cache', stats'>> # <<cache, stats>> =>
             /\ lock \in Threads /\ req[lock].pc = "locked"
             /\ lock' = NoThread
       /\ <<cache', stats'>> = serial']_vars

\* C16 witness: a thread is inside a lookup and holds the lock while the
\* other one waits to store into the full cache
C16_Witness ==
    /\ lock = 2 /\ req[2].pc = "locked" /\ req[2].op.name = "get"
    /\ req[1].pc = "waiting" /\ req[1].op.name = "set"
    /\ req[1].op.key \notin Keys(cache)
    /\ Len(cache) = max_size

\* C17: the cache lock is never held while an upstream call is in progress:
\* the lock is held only by a thread inside a cache operation, and a wrapper
\* waiting for its function holds no lock, has completed its lookup with a
\* miss (unless the cache is bypassed) and has not come to its store yet.
C17_NoLockDuringUpstreamCall ==
    /\ lock # NoThread => req[lock].pc = "locked"
    /\ \A s \in Threads :
          req[s].pc = "upstream" =>
              /\ lock # s
              /\ req[s].op.name # "set"
              /\ ~req[s].call[1].bypass_cache =>
                    req[s].val = Returned("get", <<>>) /\ req[s].op.name = "get"

\* C17 witness: while one request waits for its upstream call, the other one
\* holds the lock inside its store, after its own lookup and upstream call
C17_Witness ==
    /\ req[1].pc = "upstream" /\ ~req[1].call[1].bypass_cache
    /\ lock = 2 /\ req[2].pc = "locked" /\ req[2].op.name = "set"
    /\ req[2].call[1].key = req[1].call[1].key

----------------------------------------------------------------------------
(* Claims about lookups and expiry *)

\* C18: a lookup that hits adds exactly 1 to the entry's hit_count, sets its
\* last_accessed to the current time and moves it to the most recently used
\* position; the other entries keep their order and their fields, and the
\* number of entries is unchanged.
C18_HitTouchesOnlyItsEntry ==
    [][\A c \in CacheLookups :
          (get(c[1], c[2], None) /\ ret'.val # <<>>) =>
              LET i == IndexOf(cache, _generate_key(c[1], c[2], None))
                  e == cache[i]
              IN  /\ Len(cache') = Len(cache)
                  /\ Last(cache') = [e EXCEPT !.hit_count = e.hit_count + 1,
                                              !.last_accessed = now]
                  /\ SubSeq(cache', 1, Len(cache') - 1) = RemoveAt(cache, i)
                  /\ stats'.hits = stats.hits + 1]_vars

\* C18 witness: the entry stored first was hit later than it was stored and
\* now stands behind the entry stored after it
C18_Witness ==
    /\ ret.op = "get" /\ ret.val # <<>>
    /\ Len(cache) = 2
    /\ Last(cache).hit_count = 1 /\ Last(cache).last_accessed = now
    /\ Last(cache).created_at < now
    /\ Last(cache).created_at < cache[1].created_at
    /\ cache[1].hit_count = 0

\* C19: a lookup returns nothing both when no entry is held under the key
\* and when the entry's expires_at has passed; in the second case the lookup
\* removes that entry, and all other entries are left in place.
C19_AbsentWhenMissingOrExpired ==
    [][\A c \in CacheLookups :
          get(c[1], c[2], None) =>
              LET key == _generate_key(c[1], c[2], None) IN
              /\ key \notin Keys(cache) => (ret'.val = <<>> /\ cache' = cache)
              /\ (key \in Keys(cache) /\ now > cache[IndexOf(cache, key)].expires_at) =>
                    /\ ret'.val = <<>>
                    /\ key \notin Keys(cache')
                    /\ cache' = RemoveAt(cache, IndexOf(cache, key))]_vars

\* C19 witness: a lookup after the clock moved has returned nothing, one
\* entry is gone though nothing was evicted, and the entry that is left is
\* one that has not expired
C19_Witness ==
    /\ ret.op = "get" /\ ret.val = <<>>
    /\ now > 0 /\ stats.misses = 1 /\ stats.evictions = 0
    /\ Len(cache) = 1 /\ Len(lru) = 1
    /\ cache[1].expires_at > now /\ cache[1].hit_count = 0

\* C20: an entry stored at time t0 with ttl > 1 that is still held (not
\* evicted, invalidated, swept or overwritten) is returned by a lookup at
\* t0 + 1, and a lookup at t0 + ttl + 1 returns nothing.
C20_LiveThenExpired ==
    [][\A c \in TtlCalls :
          LET key == _generate_key(c[1], c[2], None)
              ttl == c[4][1]
          IN  (get(c[1], c[2], None) /\ key \in Keys(cache) /\ ttl > 1) =>
                 LET t0 == cache[IndexOf(cache, key)].created_at IN
                 /\ now = t0 + 1 => ret'.val = <<c[3]>>
                 /\ now = t0 + ttl + 1 => ret'.val = <<>>]_vars

\* C20 witness: the entry stored at time 0 with ttl 2 has been returned by a
\* lookup at time 1
C20_Witness ==
    /\ ret.op = "get" /\ ret.val = <<PlainResult>>
    /\ now = 1
    /\ Last(cache).created_at = 0 /\ Last(cache).expires_at = 2
    /\ Last(cache).hit_count = 1 /\ Last(cache).last_accessed = 1

----------------------------------------------------------------------------
(* Claims about the administrative operations *)

\* C21: a sweep removes every entry whose expires_at has passed and no other
\* entry and returns the number removed; the entries that are left keep
\* their fields (value, hit_count, last_accessed) and their relative order,
\* and the hit, miss and eviction counters are unchanged.
C21_SweepRemovesOnlyExpired ==
    [][cleanup_expired =>
          LET passed == {i \in 1..Len(cache) : now > cache[i].expires_at}
              live == {i \in 1..Len(cache) : ~(now > cache[i].expires_at)}
          IN  /\ \A i \in passed : cache[i].key \notin Keys(cache')
              /\ \A i \in live : \E j \in 1..Len(cache') : cache'[j] = cache[i]
              /\ Len(cache') = Cardinality(live)
              /\ \A i, j \in live :
                    i < j => IndexOf(cache', cache[i].key) < IndexOf(cache', cache[j].key)
              /\ ret'.val = Cardinality(passed)
              /\ stats'.hits = stats.hits /\ stats'.misses = stats.misses
              /\ stats'.evictions = stats.evictions]_vars

\* C21 witness: a sweep has removed one entry and left the other one, which
\* expires at this very instant and was hit before
C21_Witness ==
    /\ ret.op = "cleanup_expired" /\ ret.val = 1
    /\ Len(cache) = 1 /\ cache[1].expires_at = now
    /\ cache[1].hit_count = 1 /\ cache[1].last_accessed < now
    /\ stats.hits = 1

\* C22: clearing the entries of one endpoint removes exactly the entries
\* that were stored under that endpoint and returns their number; the
\* entries stored under the other endpoints stay, in their order.
C22_ClearsEntriesOfEndpoint ==
    [][\A e \in {"analyze", "chat"} :
          invalidate_by_endpoint(e) =>
              /\ cache' = SelectSeq(cache, LAMBDA x : x.key[2] # e)
              /\ ret'.val = Len(cache) - Len(cache')]_vars

\* C23: resetting the statistics sets the hit, miss and eviction counters to
\* 0 and leaves the entries intact (keys, values, expiry times, hit_counts
\* and order as before), and the size reported is the number of entries.
C23_ResetKeepsEntries ==
    [][reset_stats =>
          /\ stats'.hits = 0 /\ stats'.misses = 0 /\ stats'.evictions = 0
          /\ stats'.current_size = Len(cache)
          /\ cache' = cache]_vars

\* C23 witness: the statistics were reset after a hit while two entries are
\* held: the counters are 0, the size is 2 and the hit entry still has its
\* hit_count
C23_Witness ==
    /\ ret.op = "reset_stats"
    /\ stats.hits = 0 /\ stats.misses = 0 /\ stats.current_size = 2
    /\ Len(cache) = 2 /\ Last(cache).hit_count = 1

----------------------------------------------------------------------------
(* Claims about the life of an entry *)

\* C24: an entry is created, then live, then removed, with no path back: a
\* lookup of a fingerprint that is not held returns nothing and leaves it not
\* held; a fingerprint comes to be held only by a store of it; every store
\* leaves under its fingerprint a fresh entry (hit_count 0, created_at = now,
\* expires_at = now + ttl); and an entry that stays held keeps its created_at
\* and expires_at, so an expired one never becomes live again.
C24_RemovedUntilStoredAfresh ==
    [][/\ \A c \in LifeLookups :
             LET key == _generate_key(c[1], c[2], None) IN
             (get(c[1], c[2], None) /\ key \notin Keys(cache)) =>
                 (ret'.val = <<>> /\ key \notin Keys(cache'))
       /\ \A k \in Keys(cache') \ Keys(cache) : ret'.op = "set" /\ ret'.val = k
       /\ \A c \in LifeCalls :
             LET key == _generate_key(c[1], c[2], None)
                 ttl == IF c[4] = NoInt THEN DefaultTtl(c[1]) ELSE c[4][1]
             IN  set(c[1], c[2], c[3], c[4], None) =>
                    /\ key \in Keys(cache')
                    /\ LET e == cache'[IndexOf(cache', key)] IN
                       /\ e.value = c[3] /\ e.hit_count = 0
                       /\ e.created_at = now /\ e.expires_at = now + ttl
       /\ \A k \in Keys(cache') \cap Keys(cache) :
             LET e == cache[IndexOf(cache, k)]
                 f == cache'[IndexOf(cache', k)]
             IN  \/ ret'.op = "set" /\ ret'.val = k
                 \/ /\ f.created_at = e.created_at /\ f.expires_at = e.expires_at
                    /\ f.hit_count >= e.hit_count]_vars

\* C24 witness: an eviction took place, so each of the three fingerprints
\* had been stored by then; the looked-up one is not held now, and the
\* lookup just made returned nothing
C24_Witness ==
    /\ ret.op = "get" /\ ret.val = <<>>
    /\ stats.evictions = 1 /\ stats.misses = 1
    /\ Len(cache) = max_size
    /\ \A c \in LifeLookups : _generate_key(c[1], c[2], None) \notin Keys(cache)

----------------------------------------------------------------------------
(* Claims about the fingerprint *)

\* the dicts p and q, given as their items, are equal as unordered
\* structures: the same field names with the same values, at every depth
RECURSIVE SameDict(_, _)
SameDict(p, q) ==
    /\ Len(p) = Len(q)
    /\ \A i \in 1..Len(p) : \E j \in 1..Len(q) :
          /\ p[i][1] = q[j][1]
          /\ Len(p[i]) = Len(q[j])
          /\ IF Len(p[i]) = 3 THEN SameDict(p[i][3], q[j][3]) ELSE p[i][2] = q[j][2]

\* C25: the fingerprint does not depend on field order: payloads that are
\* equal as unordered structures, at any depth, give the same fingerprint,
\* and a lookup with one field order returns the value stored, and still
\* live, under the other field order.
C25_KeyIgnoresFieldOrder ==
    [][\A c \in KeyStores, q \in KeyLookups :
          SameDict(c[2], q[2]) =>
              LET key == _generate_key(c[1], c[2], None) IN
              /\ _generate_key(q[1], q[2], None) = key
              /\ (get(q[1], q[2], None) /\ key \in Keys(cache)
                    /\ ~(now > cache[IndexOf(cache, key)].expires_at)) =>
                    ret'.val = <<cache[IndexOf(cache, key)].value>>]_vars

\* C25 witness: a lookup, made with the fields in another order than the
\* store at the outer or the inner depth, has returned the value stored for
\* the nested payload while the payload with the inner values exchanged is
\* held as an entry of its own
C25_Witness ==
    /\ ret.op = "get" /\ ret.val = <<PlainResult>>
    /\ Len(cache) = 2
    /\ Last(cache).value = PlainResult /\ Last(cache).hit_count = 1
    /\ cache[1].value = TaggedResult

\* the caller a call of the wrapped function names: user_id by keyword, or
\* as the second positional argument
CallerOf(args, kwargs) ==
    IF kwargs.user_id # None THEN kwargs.user_id
    ELSE IF Len(args) >= 2 THEN args[2] ELSE None

\* C26: the caller is part of the fingerprint exactly when caller scoping is
\* requested: a call that names its caller under a caller-scoped decorator
\* uses a key that ends with that caller, so no other caller's lookup finds
\* its entry; without caller scoping the key has no caller in it.
C26_CallerInKeyWhenScoped ==
    \A s \in Threads :
        req[s].call # <<>> =>
            LET c == req[s].call[1]
                who == CallerOf(c.args, c.kwargs)
            IN  /\ (c.deco.include_user /\ Truthy(who)) =>
                      (Len(c.key) = 3 /\ c.key[3] = who)
                /\ ~c.deco.include_user => Len(c.key) = 2

\* C26, the part about callers named by keyword: under a caller-scoped
\* decorator a call with a non-empty user_id keyword uses a key that ends
\* with that user_id; without caller scoping the key has no caller in it.
C26_KeywordCallerInKey ==
    \A s \in Threads :
        req[s].call # <<>> =>
            LET c == req[s].call[1] IN
            /\ (c.deco.include_user /\ Truthy(c.kwargs.user_id)) =>
                  (Len(c.key) = 3 /\ c.key[3] = c.kwargs.user_id)
            /\ ~c.deco.include_user => Len(c.key) = 2

\* C26_KeywordCallerInKey is met: a caller-scoped call of u1 has missed and
\* waits for its function while the entry of the same endpoint and payload
\* that names no caller is held and has not expired
C26_KeywordWitness ==
    \E s \in Threads :
        /\ req[s].pc = "upstream" /\ req[s].val = Returned("get", <<>>)
        /\ req[s].call[1].deco.include_user /\ req[s].call[1].kwargs.user_id = "u1"
        /\ \E i \in 1..Len(cache) :
              /\ cache[i].key = <<req[s].call[1].key[1], req[s].call[1].key[2]>>
              /\ ~(now > cache[i].expires_at)

----------------------------------------------------------------------------
(* Claims about the counters *)

\* C27: the hit counter is the number of lookups since the last reset that
\* returned a stored value and the miss counter the number that returned
\* nothing (no entry, or an expired one): a lookup adds 1 to exactly one of
\* them according to what it returns, a reset sets both to 0, no other step
\* changes them; and hit_rate is hits / (hits + misses), 0 without lookups.
C27_CountersCountLookups ==
    [][/\ \A s \in Threads :
             (release(s) /\ req[s].op.name = "get") =>
                 IF req'[s].val.val # <<>>
                 THEN stats'.hits = stats.hits + 1 /\ stats'.misses = stats.misses
                 ELSE stats'.misses = stats.misses + 1 /\ stats'.hits = stats.hits
       /\ \A s \in Threads :
             (release(s) /\ req[s].op.name = "reset_stats") =>
                 (stats'.hits = 0 /\ stats'.misses = 0)
       /\ (stats'.hits # stats.hits \/ stats'.misses # stats.misses) =>
             \E s \in Threads : release(s) /\ req[s].op.name \in {"get", "reset_stats"}
       /\ LET H == stats'.hits
              M == stats'.misses
              r == hit_rate(stats')
          IN  IF H + M = 0 THEN r[1] = 0
              ELSE r[1] * (H + M) = H * r[2] /\ r[2] > 0]_vars

\* C27 witness: after a miss on an expired entry and a hit, both since the
\* last reset, the counters are 1 and 1 and hit_rate is 1/2
C27_Witness ==
    /\ req[1].pc = "done" /\ req[1].val = Returned("get", <<PlainResult>>)
    /\ stats.hits = 1 /\ stats.misses = 1
    /\ hit_rate(stats) = <<1, 2>>
    /\ now > 0 /\ Len(cache) = 1 /\ cache[1].created_at = now

----------------------------------------------------------------------------
(* Claims about the windows as time passes *)

\* a step of the self-cleaning count: at every check a row counts in a window exactly while its timestamp lies
\* in the trailing interval of the window's length that ends now; no step
\* removes or changes a row; and a check made once the caller's last row is
\* a day old (strictly: older than a day) passes
SelfCleaning(strictly) ==
    /\ \A s \in DOMAIN req :
          analyze_trends_begin(s, Caller, LimiterPayload) =>
              LET r == req'[s]
                  age == now - Last(ledger).request_timestamp
              IN  /\ r.chk.allowed <=>
                        \A i \in 1..Len(Windows) :
                            CallsWithin(Caller.id, Windows[i].duration)
                                < r.chk.limits[Windows[i].limit_key]
                  /\ ~r.chk.allowed =>
                        r.chk.current_count
                            = CallsWithin(Caller.id, WindowNamed(r.chk.limit_type).duration)
                  /\ (ledger # <<>> /\ (IF strictly THEN age > 86400 ELSE age >= 86400)) =>
                        (r.chk.allowed /\ r.pc = "upstream")
    /\ Len(ledger') >= Len(ledger)
    /\ SubSeq(ledger', 1, Len(ledger)) = ledger

\* C28: counting is self-cleaning: a row is counted in a window exactly while
\* its timestamp lies within the trailing interval of that window's length
\* ending now, with no decay pass; a caller who makes no further calls is
\* allowed again at the latest one day after the caller's last recorded row.
C28_AllowedOneDayAfterLast == [][SelfCleaning(FALSE)]_vars

\* C28 as amended: as C28, with the caller allowed again at every instant
\* later than one day after the caller's last recorded row.
C28_AllowedLaterThanOneDay == [][SelfCleaning(TRUE)]_vars

\* C28 witness: the caller has as many rows as the day limit, the last of
\* them is more than a day old, and the check just made has passed
C28_Witness ==
    /\ req[1].pc = "upstream" /\ req[1].chk.allowed
    /\ Len(ledger) = req[1].chk.limits.requests_per_day
    /\ now - Last(ledger).request_timestamp > 86400
    /\ CallsWithin(Caller.id, 86400) = 0

\* C29: the remaining quota reported for each of the three windows is
\* max(0, limit - the caller's rows in that trailing window), never
\* negative, and a check made at the same instant on the same ledger passes
\* exactly when the reported remaining is greater than 0 in all three.
C29_RemainingQuota ==
    [][\A s \in DOMAIN req :
          get_my_quota(s, Caller) =>
              LET q == req'[s].quota[1]
                  chk == check_rate_limit(ledger,
                             Policy(q.minute.limit, q.hour.limit, q.day.limit), Caller, now)
              IN  /\ \A i \in 1..Len(Windows) :
                        LET w == Windows[i]
                            x == q[w.name]
                            n == CallsWithin(Caller.id, w.duration)
                        IN  /\ x.limit \in {l[w.limit_key] :
                                               l \in _get_rate_limits(configs, Caller)}
                            /\ x.used = n
                            /\ x.remaining = (IF x.limit - n > 0 THEN x.limit - n ELSE 0)
                            /\ x.remaining >= 0
                  /\ chk.allowed <=>
                        \A i \in 1..Len(Windows) : q[Windows[i].name].remaining > 0]_vars

\* C29 witness: the caller has more rows in the minute than the limit (two
\* requests passed the check together), and the quota reported says 0 left
\* for the minute
C29_Witness ==
    \E s \in DOMAIN req :
        /\ req[s].endpoint = "quota" /\ req[s].pc = "done"
        /\ req[s].quota[1].minute.used > req[s].quota[1].minute.limit
        /\ req[s].quota[1].minute.remaining = 0
        /\ req[s].quota[1].minute.used = CallsWithin(Caller.id, 60)

----------------------------------------------------------------------------
(* Claims about the refusal seen by the client *)

\* C30: whenever an AI endpoint refuses a request because the check raised,
\* the response is a 429 that carries the limit, remaining = 0 and the reset
\* time of the exception; the exception is raised on to the client and the
\* upstream call is not made.
C30_RefusalCarriesQuota ==
    \A s \in DOMAIN req :
        (req[s].pc = "done" /\ ~req[s].chk.allowed) =>
            /\ req[s].status = 429 /\ req[s].raised = "HTTPException"
            /\ req[s].outcome = None /\ req[s].events = 0
            /\ req[s].response # <<>>
            /\ LET r == req[s].response[1] IN
               /\ r.status_code = 429
               /\ r.limit = <<req[s].chk.limit>> \/ r.message[2] = req[s].chk.limit
               /\ r.remaining = <<0>>
               /\ r.reset_time = <<req[s].chk.reset_time>>

----------------------------------------------------------------------------
(* Claims about the statistics of the cache *)

\* C31: after every cache operation (lookup hit, lookup miss, lookup of an
\* expired entry, store of a new or of a held key, eviction, invalidate,
\* clear, sweep, reset of the statistics) the field current_size of the
\* statistics equals the number of entries held.
C31_SizeIsNumberOfEntries == stats.current_size = Len(cache)

\* C31 witness: after a capacity eviction and a second of time a lookup has
\* returned nothing (the entry stored last, with a ttl of 0, is expired and
\* the lookup removes it): one entry is left and current_size is 1
C31_Witness ==
    /\ ret.op = "get" /\ ret.val = <<>>
    /\ stats.evictions = 1 /\ stats.misses = 1
    /\ Len(cache) = 1 /\ now > 0
    /\ stats.current_size = 1

\* C32: a store of a key that is already held, also when the cache is at
\* capacity, evicts nothing: the number of entries and the statistics are as
\* before, the entry is replaced by one with the new value, a new expires_at
\* and hit_count 0, it is the most recently used entry, and the other
\* entries are as they were, in their order.
C32_RestoreEvictsNothing ==
    [][\A c \in StoreCalls :
          LET key == _generate_key(c[1], c[2], None)
              ttl == IF c[4] = NoInt THEN DefaultTtl(c[1]) ELSE c[4][1]
          IN  (key \in Keys(cache) /\ set(c[1], c[2], c[3], c[4], None)) =>
                  /\ Len(cache') = Len(cache)
                  /\ stats' = stats
                  /\ Last(cache').key = key
                  /\ Last(cache').value = c[3]
                  /\ Last(cache').expires_at = now + ttl
                  /\ Last(cache').created_at = now
                  /\ Last(cache').hit_count = 0
                  /\ SubSeq(cache', 1, Len(cache) - 1)
                        = RemoveAt(cache, IndexOf(cache, key))]_vars

\* C32 witness: the cache is at capacity and the last store was one of the
\* first fingerprint, after a hit and a second of time: its entry is the
\* most recently used one, has the second value and hit_count 0, the entry
\* before it is the one of the endpoint chat, and nothing was evicted
C32_Witness ==
    /\ ret.op = "set"
    /\ ret.val = _generate_key("analyze", << <<"a", 1>> >>, None)
    /\ Len(cache) = max_size /\ stats.evictions = 0 /\ stats.hits = 1
    /\ cache[1].key[2] = "chat"
    /\ Last(cache).key = ret.val
    /\ Last(cache).value = TaggedResult
    /\ Last(cache).created_at = 1 /\ Last(cache).expires_at = 2
    /\ Last(cache).hit_count = 0

\* a step of the cache counts its removals as follows: a store adds to the
\* eviction counter the number of entries it removes, a reset of the
\* statistics sets the counter to 0 and no other step changes it; a sweep,
\* an invalidation, a clear by endpoint and a clear leave the hit and miss
\* counters as they are; a lookup that removes an expired entry leaves the
\* hit counter as it is and adds `missed` to the miss counter
CountsEvictions(missed) ==
    LET stored == \E c \in StoreCalls : set(c[1], c[2], c[3], c[4], None)
        looked == \E c \in StoreLookups : get(c[1], c[2], None)
        dropped == \/ \E c \in StoreLookups : invalidate(c[1], c[2], None)
                   \/ invalidate_by_endpoint("chat")
                   \/ clear
                   \/ cleanup_expired
        removed == Cardinality(Keys(cache) \ Keys(cache'))
    IN  /\ stored => stats'.evictions = stats.evictions + removed
        /\ reset_stats => stats'.evictions = 0
        /\ ~stored /\ ~reset_stats => stats'.evictions = stats.evictions
        /\ dropped => stats'.hits = stats.hits /\ stats'.misses = stats.misses
        /\ looked /\ removed > 0 =>
              stats'.hits = stats.hits /\ stats'.misses = stats.misses + missed

\* C33: the eviction counter counts capacity evictions only: between two
\* resets of the statistics it is the number of entries removed by a store
\* at capacity, and the removals by expiry on lookup, by sweep, by
\* invalidation and by clear leave it and the hit and miss counters
\* unchanged.
C33_RemovalsLeaveCounters == [][CountsEvictions(0)]_vars

\* C33 as it holds: the same, but a lookup that removes an expired entry
\* returns absent and adds 1 to the miss counter.
C33_ExpiredLookupCountsAMiss == [][CountsEvictions(1)]_vars

\* C33 witness: after one capacity eviction and one lookup that returned
\* absent, a sweep has removed one expired entry: the counters still say one
\* eviction, one miss and no hit
C33_Witness ==
    /\ ret.op = "cleanup_expired" /\ ret.val = 1
    /\ stats.evictions = 1 /\ stats.misses = 1 /\ stats.hits = 0
    /\ stats.current_size = Len(cache)

----------------------------------------------------------------------------
(* Claims about the end of a store *)

\* C34: every store terminates and releases the cache lock: for a capacity
\* N >= 1 the eviction loop removes at most one entry before the entry is
\* inserted, and for a cache of capacity 0 the loop ends as well (it does
\* not spin on an empty cache while it holds the lock and blocks every other
\* cache operation).
C34_StoreTerminates ==
    /\ [](\A s \in DOMAIN req :
            req[s].pc = "loop" => Len(req[s].view[1]) - Len(cache) <= 1)
    /\ (lock # NoThread) ~> (lock = NoThread)

\* C34 for the capacities N >= 1: the loop of a store removes at most one
\* entry, and it goes on only while the cache holds an entry to remove
C34_LoopRemovesAtMostOne ==
    \A s \in DOMAIN req :
        (req[s].pc = "loop" /\ req[s].max_size >= 1) =>
            /\ Len(req[s].view[1]) - Len(cache) <= 1
            /\ Len(cache) >= req[s].max_size => cache # <<>>

\* C34 witness: on a cache of capacity 2 the loop of a store has removed one
\* entry and has room now
C34_Witness ==
    \E s \in DOMAIN req :
        /\ req[s].pc = "loop" /\ req[s].max_size = 2
        /\ Len(req[s].view[1]) = 2 /\ Len(cache) = 1
        /\ stats.evictions = req[s].view[2].evictions + 1

----------------------------------------------------------------------------
(* Claims about what the rate limiter reads and writes *)

\* the instants, counted from now, at which the next check is looked at
Later == {0, 1, 60, 3600, 86400, 86401}

\* C35: a rate-limit check appends nothing to the ledger and a request that
\* is refused records no UsageEvent (every row appended comes from a request
\* that passed its check): refused attempts count in no window, so at every
\* later instant the check gives what it would have given without them.
C35_RefusalRecordsNothing ==
    [][/\ \A s \in DOMAIN req :
             analyze_trends_begin(s, Caller, LimiterPayload) =>
                 /\ ledger' = ledger
                 /\ ~req'[s].chk.allowed =>
                       /\ req'[s].pc = "done" /\ req'[s].events = 0
                       /\ \A limits \in _get_rate_limits(configs, Caller), d \in Later :
                             check_rate_limit(ledger', limits, Caller, now + d)
                                 = check_rate_limit(ledger, limits, Caller, now + d)
       /\ ledger' # ledger =>
             \E s \in DOMAIN req :
                 /\ req[s].pc = "upstream" /\ req[s].chk.allowed
                 /\ req'[s].pc = "done" /\ req'[s].events = 1
                 /\ ledger' = Append(ledger, Last(ledger'))]_vars

\* C35 witness: the caller was refused in the first minute and once more a
\* minute later; the ledger holds the rows it held at the first refusal
C35_Witness ==
    /\ \A s \in DOMAIN req :
           /\ req[s].pc = "done" /\ ~req[s].chk.allowed /\ req[s].events = 0
           /\ req[s].chk.current_count = Len(ledger)
    /\ req[1].chk.reset_time = 0 /\ req[2].chk.reset_time = 60
    /\ \A i \in 1..Len(ledger) : ledger[i].request_timestamp = 0

\* the rows of the ledger that belong to the user u
OwnRows(rows, u) == SelectSeq(rows, LAMBDA r : r.user_id = u.id)

\* the rows, each as if it had been recorded for the endpoint e
AsEndpoint(rows, e) == [i \in 1..Len(rows) |-> [rows[i] EXCEPT !.endpoint = e]]

\* the rows of rate_limit_config that name the user u or the role of u
OwnConfigs(cfgs, u) ==
    {c \in cfgs : \/ c.target_type = "user" /\ c.target_value = u.id
                  \/ c.target_type = "role" /\ c.target_value = u.role}

\* the endpoints a check is made for, and the instants, counted from now,
\* at which it is made
CheckedEndpoints == {"analyze", "chat"}
CheckedAt == {0, 60, 86400}

\* C36: rate limiting is isolated per caller and shared across endpoints:
\* the outcome of a check for a caller depends only on the caller's own
\* UsageEvents and resolved policy (it is the outcome on the caller's rows
\* alone, under the policy resolved from the caller's own configuration
\* rows), no step of another caller changes it, and the caller's rows of
\* every endpoint count in the check for every endpoint.
C36_IsolatedPerCallerSharedAcrossEndpoints ==
    /\ [](\A u \in Callers, e \in CheckedEndpoints, d \in CheckedAt :
            /\ _get_rate_limits(configs, u) = _get_rate_limits(OwnConfigs(configs, u), u)
            /\ \A limits \in _get_rate_limits(configs, u) :
                  LET chk == check_rate_limit_on(ledger, limits, u, e, now + d) IN
                  /\ chk = check_rate_limit_on(OwnRows(ledger, u), limits, u, e, now + d)
                  /\ chk = check_rate_limit_on(AsEndpoint(ledger, e), limits, u, e, now + d)
                  /\ chk.allowed <=>
                        \A k \in 1..Len(Windows) :
                            Cardinality({i \in 1..Len(ledger) :
                                /\ ledger[i].user_id = u.id
                                /\ ledger[i].request_timestamp
                                       >= now + d - Windows[k].duration})
                              < limits[Windows[k].limit_key])
    /\ [][\A u \in Callers :
             OwnRows(ledger', u) = OwnRows(ledger, u) =>
                 \A limits \in _get_rate_limits(configs, u), e \in CheckedEndpoints, d \in CheckedAt :
                     check_rate_limit_on(ledger', limits, u, e, now + d)
                         = check_rate_limit_on(ledger, limits, u, e, now + d)]_vars

\* C36 witness: the caller u1 is refused for the minute with a count of 2
\* made of a row of the endpoint chat and a row of the endpoint analyze,
\* while the ledger also holds a row of the caller u2
C36_Witness ==
    \E s \in DOMAIN req :
        /\ req[s].pc = "done" /\ req[s].user = Caller /\ ~req[s].chk.allowed
        /\ req[s].chk.current_count = 2 /\ req[s].chk.limit = 2
        /\ {OwnRows(ledger, Caller)[i].endpoint : i \in 1..2} = {"analyze", "chat"}
        /\ Len(OwnRows(ledger, Caller)) = 2
        /\ Len(OwnRows(ledger, OtherCaller)) = 1
        /\ Len(ledger) = 3

====
